---- MODULE Spec2Model ----
(***************************************************************************)
(* A model of the actor-mailbox and state-machine substrate of the         *)
(* pyside-asyncio prototype:                                               *)
(*   - AsyncInbox / ReplyChannel   (prototype/async_core/messaging.py)     *)
(*   - AsyncWorker                 (prototype/async_core/worker.py and     *)
(*                                  prototype/async_worker.py)             *)
(*   - AsyncController and states  (prototype/async_controller.py)         *)
(* Every component has its own specification over the shared variables;    *)
(* the variables of the other components stay at their initial values.     *)
(***************************************************************************)
EXTENDS Integers, Sequences, FiniteSets, TLC

(***************************************************************************)
(* Bounds of the model.                                                    *)
(***************************************************************************)
\* plain messages a run of the FIFO specification sends at most
MaxSend == 3
\* reply() calls made on one ReplyChannel at most
MaxReply == 2
\* items sent to the worker's inbox at most
MaxWorkerMsgs == 2
\* commands given to the controller at most
MaxCmds == 4
\* the largest maxsize an inbox is built with
MaxSize == 2
\* calls of schedule_shutdown() at most
MaxSchedule == 2

\* the most plain messages sent to an inbox that also has synchronous senders
MaxPlain == 2

(***************************************************************************)
(* Values.  Python values are tagged tuples so that values of different    *)
(* shapes can be compared: an atom, a ReplyChannel object, a 2-tuple.      *)
(***************************************************************************)
Atom(v) == <<"atom", v>>
Chan(c) == <<"chan", c>>
Tup(x, y) == <<"tup", x, y>>
None == <<"none", 0>>

\* the structural pattern `case (message, reply_channel)`: any 2-tuple
IsTuple2(x) == x[1] = "tup"

\* messages and replies are opaque to the inbox: two distinct values
Payloads == {Atom(1), Atom(2)}

\* the tasks of the inbox specification
Readers == {1}
SyncSenders == {1, 2}
Channels == SyncSenders

VARIABLES
    \* ---- AsyncInbox / ReplyChannel ----
    queue,        \* AsyncInbox.__queue: the pending items, oldest first
    getters,      \* asyncio.Queue._getters of the inbox: suspended readers
    rpc,          \* position of each reader task
    held,         \* the item read() last returned to each reader
    slot,         \* ReplyChannel.__queue of each channel (capacity 1)
    chanWaiter,   \* the task suspended in read_reply() on each channel (0: none)
    spc,          \* position of each send_synchronous caller
    chanOf,       \* the channel each send_synchronous call created (0: none)
    request,      \* the message each send_synchronous call was given
    result,       \* what send_synchronous returned to each caller
    sent,         \* history: the items enqueued, in order
    received,     \* history: the items read() returned, in order
    sendAfterRead,\* history: a send happened after some read
    replyLog,     \* history: per channel, the reply() calls and their outcome
    maxsize,      \* the maxsize the inbox queue was built with (0: unbounded)
    sendRaised,   \* history: the puts into the inbox that raised QueueFull
    cancelledAt   \* history: where its request was when each send_synchronous
                  \* call was cancelled

inboxVars == <<queue, getters, rpc, held, slot, chanWaiter, spc, chanOf, request,
               result, sent, received, sendAfterRead, replyLog, maxsize, cancelledAt,
               sendRaised>>

\* AsyncInbox(maxsize = 0): the inbox as AsyncWorker and the GUI build it
InboxInit ==
    /\ maxsize = 0
    /\ sendRaised = 0
    /\ cancelledAt = [t \in SyncSenders |-> "none"]
    /\ queue = <<>>
    /\ getters = <<>>
    /\ rpc = [r \in Readers |-> "idle"]
    /\ held = [r \in Readers |-> None]
    /\ slot = [c \in Channels |-> <<>>]
    /\ chanWaiter = [c \in Channels |-> 0]
    /\ spc = [t \in SyncSenders |-> "idle"]
    /\ chanOf = [t \in SyncSenders |-> 0]
    /\ request = [t \in SyncSenders |-> None]
    /\ result = [t \in SyncSenders |-> None]
    /\ sent = <<>>
    /\ received = <<>>
    /\ sendAfterRead = FALSE
    /\ replyLog = [c \in Channels |-> <<>>]

\* (mutant) a put that lets the items carrying a ReplyChannel jump the queue
PutNowaitSyncFirst(item) ==
    /\ queue' = IF IsTuple2(item) THEN <<item>> \o queue ELSE Append(queue, item)
    /\ sent' = Append(sent, item)
    /\ sendAfterRead' = (sendAfterRead \/ received # <<>>)
    /\ IF getters # <<>>
       THEN /\ rpc' = [rpc EXCEPT ![Head(getters)] = "woken"]
            /\ getters' = Tail(getters)
       ELSE UNCHANGED <<rpc, getters>>

(***************************************************************************)
(* asyncio.Queue.put_nowait on the unbounded inbox queue: append the item  *)
(* and wake the first suspended getter.                                    *)
(***************************************************************************)
PutNowait(item) ==
    /\ queue' = Append(queue, item)
    /\ sent' = Append(sent, item)
    /\ sendAfterRead' = (sendAfterRead \/ received # <<>>)
    /\ IF getters # <<>>
       THEN /\ rpc' = [rpc EXCEPT ![Head(getters)] = "woken"]
            /\ getters' = Tail(getters)
       ELSE UNCHANGED <<rpc, getters>>

\* asyncio.Queue.full(): a queue built with maxsize > 0 holds maxsize items
QueueIsFull == maxsize > 0 /\ Len(queue) >= maxsize

\* AsyncInbox.send(message): put_nowait raises QueueFull on a full queue and
\* the message is not enqueued
Send(m) ==
    /\ IF QueueIsFull
       THEN /\ sendRaised' = sendRaised + 1
            /\ UNCHANGED <<queue, sent, sendAfterRead, rpc, getters>>
       ELSE /\ PutNowait(m)
            /\ UNCHANGED sendRaised
    /\ UNCHANGED <<held, slot, chanWaiter, spc, chanOf, request, result,
                   received, replyLog, maxsize, cancelledAt>>

\* (mutant) the newest item leaves the queue
GetNowaitLifo(r) ==
    /\ held' = [held EXCEPT ![r] = queue[Len(queue)]]
    /\ received' = Append(received, queue[Len(queue)])
    /\ queue' = SubSeq(queue, 1, Len(queue) - 1)

\* asyncio.Queue.get_nowait: the oldest item leaves the queue
GetNowait(r) ==
    /\ held' = [held EXCEPT ![r] = Head(queue)]
    /\ received' = Append(received, Head(queue))
    /\ queue' = Tail(queue)

\* asyncio.Queue.get: take the oldest item, or suspend on the empty queue
QueueGet(r) ==
    IF queue # <<>>
    THEN /\ GetNowait(r)
         /\ rpc' = [rpc EXCEPT ![r] = "idle"]
         /\ UNCHANGED getters
    ELSE /\ rpc' = [rpc EXCEPT ![r] = "waiting"]
         /\ getters' = Append(getters, r)
         /\ UNCHANGED <<queue, held, received>>

\* AsyncInbox.read(), up to its return or its suspension on the empty queue
ReadCall(r) ==
    /\ rpc[r] = "idle"
    /\ QueueGet(r)
    /\ UNCHANGED <<slot, chanWaiter, spc, chanOf, request, result, sent,
                   sendAfterRead, replyLog, maxsize, cancelledAt, sendRaised>>

\* (mutant) a woken read() returns without testing the queue again
ReadResumeNoRecheck(r) ==
    /\ rpc[r] = "woken"
    /\ IF queue # <<>>
       THEN GetNowait(r)
       ELSE /\ held' = [held EXCEPT ![r] = None]
            /\ UNCHANGED <<queue, received>>
    /\ rpc' = [rpc EXCEPT ![r] = "idle"]
    /\ UNCHANGED getters
    /\ UNCHANGED <<slot, chanWaiter, spc, chanOf, request, result, sent,
                   sendAfterRead, replyLog, maxsize, cancelledAt, sendRaised>>

\* AsyncInbox.read() resumed after a put woke its getter
ReadResume(r) ==
    /\ rpc[r] = "woken"
    /\ QueueGet(r)
    /\ UNCHANGED <<slot, chanWaiter, spc, chanOf, request, result, sent,
                   sendAfterRead, replyLog, maxsize, cancelledAt, sendRaised>>

\* (mutant) one ReplyChannel shared by every call
FreshChannelShared(t) == 1

\* ReplyChannel(): every call makes one channel, named here after its caller
FreshChannel(t) == t

\* (mutant) send_synchronous returns at once, without awaiting the reply
SendSynchronousNoWait(t, m) ==
    /\ spc[t] = "idle"
    /\ PutNowait(Tup(m, Chan(FreshChannel(t))))
    /\ chanOf' = [chanOf EXCEPT ![t] = FreshChannel(t)]
    /\ request' = [request EXCEPT ![t] = m]
    /\ spc' = [spc EXCEPT ![t] = "done"]
    /\ UNCHANGED <<held, slot, chanWaiter, result, received, replyLog, maxsize, cancelledAt,
                   sendRaised>>

\* AsyncInbox.send_synchronous(message), up to its suspension in read_reply()
\* (the inboxes that have synchronous senders are built unbounded, so the
\* put never finds the queue full)
SendSynchronous(t, m) ==
    /\ spc[t] = "idle"
    /\ ~QueueIsFull
    /\ LET c == FreshChannel(t) IN
        /\ PutNowait(Tup(m, Chan(c)))
        /\ chanOf' = [chanOf EXCEPT ![t] = c]
        /\ request' = [request EXCEPT ![t] = m]
        /\ chanWaiter' = [chanWaiter EXCEPT ![c] = t]
    /\ spc' = [spc EXCEPT ![t] = "waiting"]
    /\ UNCHANGED <<held, slot, result, received, replyLog, maxsize, cancelledAt, sendRaised>>

\* the item a reader holds carries a ReplyChannel
HoldsChannel(r) == IsTuple2(held[r]) /\ held[r][3][1] = "chan"

\* ReplyChannel.reply(message) on channel c for request m: put_nowait on a
\* queue of capacity 1, which raises QueueFull when the slot is taken
ChannelPut(c, v, m) ==
    IF Len(slot[c]) >= 1
    THEN /\ replyLog' = [replyLog EXCEPT ![c] = Append(@, <<v, "QueueFull", m>>)]
         /\ UNCHANGED <<slot, chanWaiter, spc>>
    ELSE /\ replyLog' = [replyLog EXCEPT ![c] = Append(@, <<v, "ok", m>>)]
         /\ slot' = [slot EXCEPT ![c] = <<v>>]
         /\ IF chanWaiter[c] # 0
            THEN /\ spc' = [spc EXCEPT ![chanWaiter[c]] = "woken"]
                 /\ chanWaiter' = [chanWaiter EXCEPT ![c] = 0]
            ELSE UNCHANGED <<spc, chanWaiter>>

\* a reader replies on the channel of the item it holds
Reply(r, v) ==
    /\ HoldsChannel(r)
    /\ ChannelPut(held[r][3][2], v, held[r][2])
    /\ UNCHANGED <<queue, getters, rpc, held, chanOf, request, result, sent,
                   received, sendAfterRead, maxsize, cancelledAt, sendRaised>>

\* ReplyChannel.read_reply() resumed: send_synchronous returns the reply
ReadReplyResume(t) ==
    /\ spc[t] = "woken"
    /\ IF slot[chanOf[t]] # <<>>
       THEN /\ result' = [result EXCEPT ![t] = Head(slot[chanOf[t]])]
            /\ slot' = [slot EXCEPT ![chanOf[t]] = <<>>]
            /\ spc' = [spc EXCEPT ![t] = "done"]
            /\ UNCHANGED chanWaiter
       ELSE /\ spc' = [spc EXCEPT ![t] = "waiting"]
            /\ chanWaiter' = [chanWaiter EXCEPT ![chanOf[t]] = t]
            /\ UNCHANGED <<result, slot>>
    /\ UNCHANGED <<queue, getters, rpc, held, chanOf, request, sent, received,
                   sendAfterRead, replyLog, maxsize, cancelledAt, sendRaised>>

\* where the request of send_synchronous caller t is: still pending in the
\* inbox, read and not yet answered, or answered
RequestAt(t) ==
    IF \E i \in 1..Len(queue) : queue[i] = Tup(request[t], Chan(chanOf[t]))
    THEN "queued"
    ELSE IF replyLog[chanOf[t]] = <<>> THEN "unanswered" ELSE "answered"

\* (mutant) cancelling the caller takes its request out of the inbox
CancelWithdraws(t) ==
    /\ spc[t] \in {"waiting", "woken"}
    /\ spc' = [spc EXCEPT ![t] = "cancelled"]
    /\ chanWaiter' = [chanWaiter EXCEPT ![chanOf[t]] = 0]
    /\ queue' = SelectSeq(queue, LAMBDA x : x # Tup(request[t], Chan(chanOf[t])))
    /\ cancelledAt' = [cancelledAt EXCEPT ![t] = RequestAt(t)]
    /\ UNCHANGED <<getters, rpc, held, slot, chanOf, request, result,
                   sent, received, sendAfterRead, replyLog, maxsize, sendRaised>>

\* the caller of send_synchronous is cancelled from outside (asyncio.timeout)
\* while it awaits read_reply(): nothing but the caller is touched
Cancel(t) ==
    /\ spc[t] \in {"waiting", "woken"}
    /\ spc' = [spc EXCEPT ![t] = "cancelled"]
    /\ chanWaiter' = [chanWaiter EXCEPT ![chanOf[t]] = 0]
    /\ cancelledAt' = [cancelledAt EXCEPT ![t] = RequestAt(t)]
    /\ UNCHANGED <<queue, getters, rpc, held, slot, chanOf, request, result,
                   sent, received, sendAfterRead, replyLog, maxsize, sendRaised>>

(***************************************************************************)
(* AsyncWorker and its concrete AsyncCameraWorker.  The worker is the one  *)
(* reader of its own inbox.  Two variants of run() exist in the            *)
(* repository: async_core/worker.py ("core": try/except Exception, plain   *)
(* and synchronous items) and async_worker.py ("legacy": try/finally,      *)
(* plain items only).                                                      *)
(***************************************************************************)
VARIABLES
    variant,        \* which AsyncWorker class the worker is built from
    tolerant,       \* the subclass's _shutdown hook returns also when
                    \* _initialize has not completed (AsyncCameraWorker's
                    \* does not: CameraClient.close() needs the writer)
    keep_running,   \* AsyncWorker.__keep_running
    is_initialized, \* AsyncWorker.__is_initialized
    is_shutdown,    \* AsyncWorker.__is_shutdown
    wpc,            \* position of the task that runs run()
    connected,      \* CameraClient.__writer is set (initialize() completed)
    pendingExc,     \* an exception propagates once the finally block is done
    awaiting,       \* the device command whose response the handler awaits
    shutdownCalls,  \* history: invocations of _shutdown
    handled,        \* history: the handler calls, <<mode, message, channel>>
    wire,           \* history: the request lines written to the device
    exitKind,       \* history: how the try body of run() was left
    scheduleCalls,  \* history: calls of schedule_shutdown()
    nread,          \* history: the number of response lines read
    responses,      \* history: the response lines read from the device
    sentAfterEnd,   \* history: for each item sent, whether run() had ended
    malformedFor,   \* history: the channel of the request whose response
                    \* float() rejected
    initQueued,     \* history: the messages pending when _initialize returned
    scheduledAt     \* history: where run() was at the first schedule_shutdown()

\* the worker's fields and the history of what run() did
runVars == <<variant, tolerant, keep_running, is_initialized, is_shutdown, wpc,
             connected, pendingExc, awaiting, shutdownCalls, handled, wire,
             exitKind, scheduleCalls, nread, responses, malformedFor, initQueued,
             scheduledAt>>

workerVars == <<runVars, sentAfterEnd>>

\* enum CameraMessage (auto() numbers its members from 1)
START_EXPOSURE == Atom(1)
STOP_EXPOSURE == Atom(2)
GET_EXPOSING_TIME == Atom(3)
CameraMessages == {START_EXPOSURE, STOP_EXPOSURE, GET_EXPOSING_TIME}

\* a message that is itself a 2-tuple (Message is a free type variable)
TupleMessage == Tup(GET_EXPOSING_TIME, START_EXPOSURE)
WorkerMessages == CameraMessages \cup {TupleMessage}

\* response lines of the device: a number of seconds, or a line float() rejects
Malformed == <<"str", 0>>
Responses == Payloads \cup {Malformed}
\* the line the device answers start_exposure and stop_exposure with
OkLine == <<"str", 2>>

\* the worker task reads its inbox as reader 1
WorkerTask == 1

\* AsyncWorker.__init__
WorkerCtor(v, tol) ==
    /\ variant = v
    /\ tolerant = tol
    /\ keep_running = TRUE
    /\ is_initialized = FALSE
    /\ is_shutdown = FALSE
    /\ wpc = "created"
    /\ connected = FALSE
    /\ pendingExc = FALSE
    /\ awaiting = "none"
    /\ shutdownCalls = 0
    /\ handled = <<>>
    /\ wire = <<>>
    /\ exitKind = "none"
    /\ scheduleCalls = 0
    /\ nread = 0
    /\ responses = <<>>
    /\ sentAfterEnd = <<>>
    /\ malformedFor = None
    /\ initQueued = 0
    /\ scheduledAt = "none"

\* (mutant) _shutdown is called a second time before run() goes on
BeginShutdownTwice(exc) ==
    /\ shutdownCalls' = shutdownCalls + 2
    /\ pendingExc' = exc
    /\ wpc' = IF connected' \/ tolerant THEN "shutting_down" ELSE "failed"

\* `await self._shutdown()`: CameraClient.close() closes the writer and awaits
\* wait_closed(); with no writer (never connected) close() raises at once,
\* where the hook of a tolerant subclass returns.
\* (connected' is the value at the time of the call: the action that calls
\* this has set or kept it.)
BeginShutdown(exc) ==
    /\ shutdownCalls' = shutdownCalls + 1
    /\ pendingExc' = exc
    /\ wpc' = IF connected' \/ tolerant THEN "shutting_down" ELSE "failed"

\* an exception leaves the try body of run(): `except Exception` (core)
\* swallows it, `finally` (legacy) lets it propagate after the cleanup
Raise ==
    /\ exitKind' = "exception"
    /\ BeginShutdown(variant = "legacy")

\* the while condition is false: the try body ends normally; only the legacy
\* run() has a finally block that then calls _shutdown
ExitLoop ==
    /\ exitKind' = "normal"
    /\ IF variant = "legacy"
       THEN BeginShutdown(FALSE)
       ELSE /\ wpc' = "ended"
            /\ UNCHANGED <<shutdownCalls, pendingExc>>

\* (mutant) _receive_message with the two client calls exchanged
PlainCommandSwapped(m) ==
    IF m = START_EXPOSURE THEN "stop_exposure"
    ELSE IF m = STOP_EXPOSURE THEN "start_exposure"
    ELSE "none"

\* the device command AsyncCameraWorker._receive_message issues for a message
PlainCommand(m) ==
    IF m = START_EXPOSURE THEN "start_exposure"
    ELSE IF m = STOP_EXPOSURE THEN "stop_exposure"
    ELSE "none"

\* a _receive_synchronous_message that handles every member of the enum
SyncCommandAll(m) ==
    IF m = GET_EXPOSING_TIME THEN "get_exposing_time"
    ELSE IF m = START_EXPOSURE THEN "start_exposure"
    ELSE IF m = STOP_EXPOSURE THEN "stop_exposure"
    ELSE "none"

\* the device command AsyncCameraWorker._receive_synchronous_message issues
SyncCommand(m) ==
    IF m = GET_EXPOSING_TIME THEN "get_exposing_time" ELSE "none"

\* (mutant) the handler writes its command and returns without awaiting the
\* device's response
DispatchNoAwait(item) ==
    LET sync == variant = "core" /\ IsTuple2(item)
        cmd == IF sync THEN SyncCommand(item[2]) ELSE PlainCommand(item)
    IN  /\ handled' = Append(handled, <<IF sync THEN "sync" ELSE "plain",
                                        IF sync THEN item[2] ELSE item,
                                        IF sync THEN item[3] ELSE None>>)
        /\ awaiting' = "none"
        /\ wire' = IF cmd = "none" THEN wire ELSE Append(wire, cmd)
        /\ wpc' = "handling"

\* the match statement of run(): a 2-tuple goes to the synchronous handler
\* (core only), anything else to _receive_message; the handler runs up to its
\* first await (the device's response) or, issuing no command, to its end
Dispatch(item) ==
    LET sync == variant = "core" /\ IsTuple2(item)
        cmd == IF sync THEN SyncCommand(item[2]) ELSE PlainCommand(item)
    IN  /\ handled' = Append(handled, <<IF sync THEN "sync" ELSE "plain",
                                        IF sync THEN item[2] ELSE item,
                                        IF sync THEN item[3] ELSE None>>)
        /\ awaiting' = cmd
        /\ wire' = IF cmd = "none" THEN wire ELSE Append(wire, cmd)
        /\ wpc' = "handling"

\* the read the loop has just been given an item for, or is suspended in
AfterGet ==
    IF queue # <<>>
    THEN Dispatch(Head(queue))
    ELSE /\ wpc' = "reading"
         /\ awaiting' = "none"
         /\ UNCHANGED <<handled, wire>>

\* (mutant) the loop reads its inbox without testing __keep_running
LoopStepNoTest ==
    /\ QueueGet(WorkerTask)
    /\ AfterGet
    /\ UNCHANGED <<exitKind, shutdownCalls, pendingExc>>

\* one pass of `while self.__keep_running:` up to the next await
LoopStep ==
    IF keep_running
    THEN /\ QueueGet(WorkerTask)
         /\ AfterGet
         /\ UNCHANGED <<exitKind, shutdownCalls, pendingExc>>
    ELSE /\ ExitLoop
         /\ awaiting' = "none"
         /\ UNCHANGED <<queue, held, received, rpc, getters, handled, wire>>

\* the exception path, leaving the inbox alone
RaiseStep ==
    /\ Raise
    /\ awaiting' = "none"
    /\ UNCHANGED <<queue, held, received, rpc, getters, handled, wire>>

\* (mutant) run() enters the receive loop without awaiting _initialize()
WorkerRunNoInitialize ==
    /\ wpc = "created"
    /\ UNCHANGED <<variant, tolerant, initQueued, scheduledAt, keep_running, is_initialized,
                   is_shutdown, connected, scheduleCalls, nread, responses, sentAfterEnd, malformedFor>>
    /\ LoopStep
    /\ UNCHANGED <<slot, chanWaiter, spc, chanOf, request, result, sent,
                   sendAfterRead, replyLog, maxsize, cancelledAt, sendRaised>>

\* run() is started as a task and awaits _initialize()
WorkerRun ==
    /\ wpc = "created"
    /\ wpc' = "initializing"
    /\ UNCHANGED <<variant, tolerant, initQueued, scheduledAt, keep_running, is_initialized, is_shutdown, connected,
                   pendingExc, awaiting, shutdownCalls, handled, wire, exitKind,
                   scheduleCalls, nread, responses, sentAfterEnd, malformedFor>>
    /\ UNCHANGED inboxVars

\* _initialize() completes: the connection is open, the loop is entered
InitializeOk ==
    /\ wpc = "initializing"
    /\ connected' = TRUE
    /\ is_initialized' = TRUE
    /\ initQueued' = Len(queue)
    /\ UNCHANGED <<variant, tolerant, scheduledAt, keep_running, is_shutdown, scheduleCalls, nread, responses, sentAfterEnd, malformedFor>>
    /\ LoopStep
    /\ UNCHANGED <<slot, chanWaiter, spc, chanOf, request, result, sent,
                   sendAfterRead, replyLog, maxsize, cancelledAt, sendRaised>>

\* _initialize() raises (the connection cannot be opened)
InitializeFail ==
    /\ wpc = "initializing"
    /\ UNCHANGED <<variant, tolerant, initQueued, scheduledAt, keep_running, is_initialized, is_shutdown, connected,
                   scheduleCalls, nread, responses, sentAfterEnd, malformedFor>>
    /\ RaiseStep
    /\ UNCHANGED <<slot, chanWaiter, spc, chanOf, request, result, sent,
                   sendAfterRead, replyLog, maxsize, cancelledAt, sendRaised>>

\* the suspended read of the loop is resumed by a put
WorkerReadResume ==
    /\ wpc = "reading"
    /\ rpc[WorkerTask] = "woken"
    /\ QueueGet(WorkerTask)
    /\ AfterGet
    /\ UNCHANGED <<variant, tolerant, initQueued, scheduledAt, keep_running, is_initialized, is_shutdown, connected,
                   pendingExc, shutdownCalls, exitKind, scheduleCalls, nread, responses, sentAfterEnd, malformedFor>>
    /\ UNCHANGED <<slot, chanWaiter, spc, chanOf, request, result, sent,
                   sendAfterRead, replyLog, maxsize, cancelledAt, sendRaised>>

\* a handler that issued no device command returns
HandlerReturn ==
    /\ wpc = "handling"
    /\ awaiting = "none"
    /\ UNCHANGED <<variant, tolerant, initQueued, scheduledAt, keep_running, is_initialized, is_shutdown, connected,
                   scheduleCalls, nread, responses, sentAfterEnd, malformedFor>>
    /\ LoopStep
    /\ UNCHANGED <<slot, chanWaiter, spc, chanOf, request, result, sent,
                   sendAfterRead, replyLog, maxsize, cancelledAt, sendRaised>>

\* the device answers start_exposure or stop_exposure: the handler returns
DeviceAck ==
    /\ wpc = "handling"
    /\ awaiting \in {"start_exposure", "stop_exposure"}
    /\ nread' = nread + 1
    /\ responses' = Append(responses, OkLine)
    /\ UNCHANGED <<variant, tolerant, initQueued, scheduledAt, keep_running, is_initialized, is_shutdown, connected,
                   scheduleCalls, sentAfterEnd, malformedFor>>
    /\ LoopStep
    /\ UNCHANGED <<slot, chanWaiter, spc, chanOf, request, result, sent,
                   sendAfterRead, replyLog, maxsize, cancelledAt, sendRaised>>

\* a handler that replies a fixed time instead of the one the device returned
DeviceTimeStale(v) ==
    /\ wpc = "handling"
    /\ awaiting = "get_exposing_time"
    /\ nread' = nread + 1
    /\ responses' = Append(responses, v)
    /\ malformedFor' = IF v = Malformed THEN held[WorkerTask][3] ELSE malformedFor
    /\ UNCHANGED <<variant, tolerant, initQueued, scheduledAt, keep_running, is_initialized, is_shutdown, connected,
                   scheduleCalls, sentAfterEnd>>
    /\ IF v = Malformed \/ ~HoldsChannel(WorkerTask)
       THEN /\ RaiseStep
            /\ UNCHANGED <<slot, chanWaiter, spc, replyLog>>
       ELSE /\ ChannelPut(held[WorkerTask][3][2], Atom(1), held[WorkerTask][2])
            /\ IF Len(slot[held[WorkerTask][3][2]]) >= 1
               THEN RaiseStep
               ELSE LoopStep
    /\ UNCHANGED <<chanOf, request, result, sent, sendAfterRead, maxsize, cancelledAt,
                   sendRaised>>

\* the device answers get_exposing_time: float(response) is replied on the
\* channel; a line that is no number, or an object that is no channel, raises
DeviceTime(v) ==
    /\ wpc = "handling"
    /\ awaiting = "get_exposing_time"
    /\ nread' = nread + 1
    /\ responses' = Append(responses, v)
    /\ malformedFor' = IF v = Malformed THEN held[WorkerTask][3] ELSE malformedFor
    /\ UNCHANGED <<variant, tolerant, initQueued, scheduledAt, keep_running, is_initialized, is_shutdown, connected,
                   scheduleCalls, sentAfterEnd>>
    /\ IF v = Malformed \/ ~HoldsChannel(WorkerTask)
       THEN /\ RaiseStep
            /\ UNCHANGED <<slot, chanWaiter, spc, replyLog>>
       ELSE /\ ChannelPut(held[WorkerTask][3][2], v, held[WorkerTask][2])
            /\ IF Len(slot[held[WorkerTask][3][2]]) >= 1
               THEN RaiseStep
               ELSE LoopStep
    /\ UNCHANGED <<chanOf, request, result, sent, sendAfterRead, maxsize, cancelledAt,
                   sendRaised>>

\* the connection fails while the handler awaits the response
DeviceFail ==
    /\ wpc = "handling"
    /\ awaiting # "none"
    /\ UNCHANGED <<variant, tolerant, initQueued, scheduledAt, keep_running, is_initialized, is_shutdown, connected,
                   scheduleCalls, nread, responses, sentAfterEnd, malformedFor>>
    /\ RaiseStep
    /\ UNCHANGED <<slot, chanWaiter, spc, chanOf, request, result, sent,
                   sendAfterRead, replyLog, maxsize, cancelledAt, sendRaised>>

\* _shutdown() completes; the flag is set and run() ends
ShutdownDone ==
    /\ wpc = "shutting_down"
    /\ is_shutdown' = TRUE
    /\ wpc' = IF pendingExc THEN "failed" ELSE "ended"
    /\ UNCHANGED <<variant, tolerant, initQueued, scheduledAt, keep_running, is_initialized, connected, pendingExc,
                   awaiting, shutdownCalls, handled, wire, exitKind, scheduleCalls, nread, responses, sentAfterEnd, malformedFor>>
    /\ UNCHANGED inboxVars

\* AsyncWorker.schedule_shutdown()
ScheduleShutdown ==
    /\ keep_running' = FALSE
    /\ scheduleCalls' = scheduleCalls + 1
    /\ scheduledAt' = IF scheduleCalls = 0 THEN wpc ELSE scheduledAt
    /\ UNCHANGED <<variant, tolerant, initQueued, is_initialized, is_shutdown, wpc, connected,
                   pendingExc, awaiting, shutdownCalls, handled, wire, exitKind, nread, responses, sentAfterEnd,
                   malformedFor>>
    /\ UNCHANGED inboxVars

(***************************************************************************)
(* AsyncController: the exposure state machine, driven by the read_inbox   *)
(* task (task 1), which handles one ControllerMessage of the controller's  *)
(* inbox at a time, and by direct calls of its methods (task 2).  The      *)
(* state hooks call `self.camera_client.start_exposure()` and the like;    *)
(* camera_client is declared a CameraClient, whose every command writes    *)
(* one request line and awaits one response line.                          *)
(***************************************************************************)
VARIABLES
    state,      \* AsyncController.__state: the class of the current state
    tpc,        \* position of each task inside the controller
    ttarget,    \* the new_state of the _transition_to a task is inside
    link,       \* the device request whose response is awaited ("idle": none)
    tcmd,       \* the command each task handles, or handled last
    tfrom,      \* the current state when that command was dispatched
    tsubmitted, \* the current state when that command was submitted
    tentered,   \* the states that command has made current, in order
    tissued,    \* the device commands that command has written, in order
    temitted,   \* the notifications that command has emitted, in order
    tresult,    \* what get_exposing_time returned for that command
    cwire,      \* history: every device command written
    signals,    \* history: every notification emitted on the sink
    sentAt,     \* history: the current state at each send to the inbox
    sentPc,     \* history: at each send to the inbox, whether read_inbox was
                \* awaiting the device inside the entry hook of CameraExposing
    ndirect,    \* history: the number of direct calls made
    events,     \* history: what the controller's tasks did, <<kind, name, task>>
    reported    \* history: the response lines the device has sent

ctlVars == <<state, tpc, ttarget, link, tcmd, tfrom, tsubmitted, tentered,
             tissued, temitted, tresult, cwire, signals, sentAt, sentPc,
             ndirect, events, reported>>

\* enum ControllerMessage (auto() numbers its members from 1)
START_CAMERA_EXPOSURE == Atom(1)
STOP_CAMERA_EXPOSURE == Atom(2)
ABORT_CAMERA_EXPOSURE == Atom(3)
CTL_GET_EXPOSING_TIME == Atom(4)
GuiMessages == {START_CAMERA_EXPOSURE, STOP_CAMERA_EXPOSURE, ABORT_CAMERA_EXPOSURE}

\* the match statement of read_inbox: the controller method a message calls
CommandOf(m) ==
    IF m = START_CAMERA_EXPOSURE THEN "start"
    ELSE IF m = STOP_CAMERA_EXPOSURE THEN "stop"
    ELSE IF m = ABORT_CAMERA_EXPOSURE THEN "abort"
    ELSE IF m = CTL_GET_EXPOSING_TIME THEN "time"
    ELSE "none"

InboxTask == 1
DirectTask == 2
Tasks == {InboxTask, DirectTask}

\* the float 0.0 the states other than CameraExposing return
ZeroTime == Atom(0)

\* the response line "ok" of the device
Ack == <<"str", 1>>

\* what a task does up to its next await: the state it makes current ("same":
\* none), the notifications it emits, the device commands it writes, where
\* it is then, the pending new state, the value it returns, and all of this
\* in the order the code does it, as events <<kind, name>> ("transition" and
\* "transition_done": a call of _transition_to begins and returns)
Outcome(st, em, cmd, pc, tgt, res, ev) ==
    [st |-> st, em |-> em, cmd |-> cmd, pc |-> pc, tgt |-> tgt, res |-> res,
     ev |-> ev]

Nothing == Outcome("same", <<>>, <<>>, "done", "none", None, <<>>)

\* the notification each state's on_entry emits
SignalOf(st) ==
    IF st = "Idle" THEN "idle"
    ELSE IF st = "Exposing" THEN "exposing"
    ELSE IF st = "Saving" THEN "saving"
    ELSE "aborting"

\* (mutant) CameraExposing.on_entry emits only after its device command
OnEntryEmitLate(new) ==
    IF new = "Idle"
    THEN Outcome("same", <<<<"idle", None>>>>, <<>>, "done", "none", None,
                 <<<<"on_entry", new>>, <<"emit", "idle">>, <<"on_entry_done", new>>>>)
    ELSE IF new = "Exposing"
    THEN Outcome("same", <<<<"exposing", None>>>>, <<"start_exposure">>,
                 "entry_io", "none", None,
                 <<<<"on_entry", new>>, <<"write", "start_exposure">>,
                   <<"emit", "exposing">>>>)
    ELSE Outcome("same", <<<<SignalOf(new), None>>>>, <<>>, "sleep", "none", None,
                 <<<<"on_entry", new>>, <<"emit", SignalOf(new)>>, <<"sleep", new>>>>)

\* (mutant) CameraExposing.on_entry returns without awaiting the device's
\* response to start_exposure
OnEntryNoAwait(new) ==
    IF new = "Idle"
    THEN Outcome("same", <<<<"idle", None>>>>, <<>>, "done", "none", None,
                 <<<<"on_entry", new>>, <<"emit", "idle">>, <<"on_entry_done", new>>>>)
    ELSE IF new = "Exposing"
    THEN Outcome("same", <<<<"exposing", None>>>>, <<"start_exposure">>,
                 "done", "none", None,
                 <<<<"on_entry", new>>, <<"emit", "exposing">>,
                   <<"write", "start_exposure">>, <<"on_entry_done", new>>>>)
    ELSE Outcome("same", <<<<SignalOf(new), None>>>>, <<>>, "sleep", "none", None,
                 <<<<"on_entry", new>>, <<"emit", SignalOf(new)>>, <<"sleep", new>>>>)

\* `await self.__state.on_entry()` of the state new, up to its first await
OnEntry(new) ==
    IF new = "Idle"
    THEN Outcome("same", <<<<"idle", None>>>>, <<>>, "done", "none", None,
                 <<<<"on_entry", new>>, <<"emit", "idle">>, <<"on_entry_done", new>>>>)
    ELSE IF new = "Exposing"
    THEN Outcome("same", <<<<"exposing", None>>>>, <<"start_exposure">>,
                 "entry_io", "none", None,
                 <<<<"on_entry", new>>, <<"emit", "exposing">>,
                   <<"write", "start_exposure">>>>)
    ELSE Outcome("same", <<<<SignalOf(new), None>>>>, <<>>, "sleep", "none", None,
                 <<<<"on_entry", new>>, <<"emit", SignalOf(new)>>, <<"sleep", new>>>>)

\* (mutant) CameraExposing.on_entry without the device command
EnterNoCommand(new) ==
    IF new = "Exposing"
    THEN Outcome(new, <<<<"exposing", None>>>>, <<>>, "done", "none", None,
                 <<<<"state", new>>, <<"on_entry", new>>, <<"emit", "exposing">>,
                   <<"on_entry_done", new>>, <<"transition_done", new>>>>)
    ELSE [OnEntry(new) EXCEPT !.st = new,
             !.ev = <<<<"state", new>>>> \o @ \o
                    (IF OnEntry(new).pc = "done"
                     THEN <<<<"transition_done", new>>>> ELSE <<>>)]

\* `self.__state = new_state` and `await self.__state.on_entry()`, after
\* which _transition_to returns
Enter(new) ==
    [OnEntry(new) EXCEPT !.st = new,
        !.ev = <<<<"state", new>>>> \o @ \o
               (IF OnEntry(new).pc = "done"
                THEN <<<<"transition_done", new>>>> ELSE <<>>)]

\* (mutant) _transition_to that skips the old state's on_exit
TransitionToNoExit(cur, new) ==
    [Enter(new) EXCEPT !.ev = <<<<"transition", new>>>> \o @]

\* (mutant) _transition_to that reassigns the state before the on_exit
TransitionToAssignFirst(cur, new) ==
    IF cur = "Exposing"
    THEN Outcome(new, <<>>, <<"stop_exposure">>, "exit_io", new, None,
                 <<<<"transition", new>>, <<"state", new>>, <<"on_exit", cur>>,
                   <<"write", "stop_exposure">>>>)
    ELSE [Enter(new) EXCEPT !.ev = <<<<"transition", new>>, <<"state", new>>,
                                      <<"on_exit", cur>>,
                                      <<"on_exit_done", cur>>>> \o Tail(@)]

\* AsyncController._transition_to(new_state) from the current state cur:
\* `await self.__state.on_exit()` first, which only CameraExposing overrides
TransitionTo(cur, new) ==
    IF cur = "Exposing"
    THEN Outcome("same", <<>>, <<"stop_exposure">>, "exit_io", new, None,
                 <<<<"transition", new>>, <<"on_exit", cur>>,
                   <<"write", "stop_exposure">>>>)
    ELSE [Enter(new) EXCEPT !.ev = <<<<"transition", new>>, <<"on_exit", cur>>,
                                      <<"on_exit_done", cur>>>> \o @]

\* get_exposing_time of CameraExposing: the device is asked
AskDevice ==
    Outcome("same", <<>>, <<"get_exposing_time">>, "time_io", "none", None,
            <<<<"write", "get_exposing_time">>>>)

\* get_exposing_time of the other states returns 0.0, which
\* AsyncController.get_exposing_time emits and returns
ReturnZero ==
    Outcome("same", <<<<"set_exposing_time", ZeroTime>>>>, <<>>, "done", "none",
            ZeroTime, <<<<"emit", "set_exposing_time">>>>)

\* (mutant) CameraExposing.start_camera_exposure enters the state again
\* instead of passing
HandleRestart(cur, c) ==
    IF c = "start" /\ cur \in {"Idle", "Exposing"} THEN TransitionTo(cur, "Exposing")
    ELSE IF cur = "Exposing" /\ c = "stop" THEN TransitionTo(cur, "Saving")
    ELSE IF cur = "Exposing" /\ c = "abort" THEN TransitionTo(cur, "Aborting")
    ELSE IF cur = "Exposing" /\ c = "time" THEN AskDevice
    ELSE IF c = "time" THEN ReturnZero
    ELSE Nothing

\* (mutant) the start_camera_exposure of SavingCameraImages and of
\* AbortingCameraExposure starts an exposure instead of passing
HandleEager(cur, c) ==
    IF c = "start" /\ cur # "Exposing" THEN TransitionTo(cur, "Exposing")
    ELSE IF cur = "Exposing" /\ c = "stop" THEN TransitionTo(cur, "Saving")
    ELSE IF cur = "Exposing" /\ c = "abort" THEN TransitionTo(cur, "Aborting")
    ELSE IF cur = "Exposing" /\ c = "time" THEN AskDevice
    ELSE IF c = "time" THEN ReturnZero
    ELSE Nothing

\* (mutant) get_exposing_time asks the device in every state
HandleTimeAlways(cur, c) ==
    IF cur = "Idle" /\ c = "start" THEN TransitionTo(cur, "Exposing")
    ELSE IF cur = "Exposing" /\ c = "stop" THEN TransitionTo(cur, "Saving")
    ELSE IF cur = "Exposing" /\ c = "abort" THEN TransitionTo(cur, "Aborting")
    ELSE IF c = "time" THEN AskDevice
    ELSE Nothing

\* (mutant) Idle.stop_camera_exposure saves instead of passing
HandleStopInIdle(cur, c) ==
    IF cur = "Idle" /\ c = "start" THEN TransitionTo(cur, "Exposing")
    ELSE IF cur = "Idle" /\ c = "stop" THEN TransitionTo(cur, "Saving")
    ELSE IF cur = "Exposing" /\ c = "stop" THEN TransitionTo(cur, "Saving")
    ELSE IF cur = "Exposing" /\ c = "abort" THEN TransitionTo(cur, "Aborting")
    ELSE IF cur = "Exposing" /\ c = "time" THEN AskDevice
    ELSE IF c = "time" THEN ReturnZero
    ELSE Nothing

\* the method of the current state's class (Idle, CameraExposing,
\* SavingCameraImages, AbortingCameraExposure) that a controller method calls
Handle(cur, c) ==
    IF cur = "Idle" /\ c = "start" THEN TransitionTo(cur, "Exposing")
    ELSE IF cur = "Exposing" /\ c = "stop" THEN TransitionTo(cur, "Saving")
    ELSE IF cur = "Exposing" /\ c = "abort" THEN TransitionTo(cur, "Aborting")
    ELSE IF cur = "Exposing" /\ c = "time" THEN AskDevice
    ELSE IF c = "time" THEN ReturnZero
    ELSE Nothing

\* the state whose entry hook task t is inside: the one it entered last
Inside(t) == tentered[t][Len(tentered[t])]

\* the device's response to start_exposure has been read: on_entry returns,
\* and with it the _transition_to that awaited it
EntryDone ==
    Outcome("same", <<>>, <<>>, "done", "none", None,
            <<<<"response", "start_exposure">>, <<"on_entry_done", "Exposing">>,
              <<"transition_done", "Exposing">>>>)

\* the device's response to stop_exposure has been read: on_exit returns and
\* _transition_to goes on with the new state
ExitDone(new) ==
    [Enter(new) EXCEPT !.ev = <<<<"response", "stop_exposure">>,
                                <<"on_exit_done", "Exposing">>>> \o @]

\* the device's response v to get_exposing_time has been read: the value is
\* emitted and returned
TimeDone(v) ==
    Outcome("same", <<<<"set_exposing_time", v>>>>, <<>>, "done", "none", v,
            <<<<"response", "get_exposing_time">>, <<"emit", "set_exposing_time">>>>)

\* the sleep of the entry hook of st is over: _transition_to(Idle()), after
\* which the hook returns, and with it the _transition_to that entered st
SleepOver(st) ==
    LET o == TransitionTo(state, "Idle")
    IN  IF o.pc = "done"
        THEN [o EXCEPT !.ev = @ \o <<<<"on_entry_done", st>>,
                                      <<"transition_done", st>>>>]
        ELSE o

\* (mutant) the entry hooks of SavingCameraImages and AbortingCameraExposure
\* return after the sleep without the transition to Idle
ResumeNoReturn(t, v) ==
    IF tpc[t] = "exit_io" THEN ExitDone(ttarget[t])
    ELSE IF tpc[t] = "time_io" THEN TimeDone(v)
    ELSE IF tpc[t] = "entry_io" THEN EntryDone
    ELSE Nothing

\* a task goes on after its await: the device's response v has been read, or
\* the asyncio.sleep(2) of SavingCameraImages / AbortingCameraExposure is over
Resume(t, v) ==
    IF tpc[t] = "exit_io" THEN ExitDone(ttarget[t])
    ELSE IF tpc[t] = "time_io" THEN TimeDone(v)
    ELSE IF tpc[t] = "entry_io" THEN EntryDone
    ELSE IF tpc[t] = "sleep" THEN SleepOver(Inside(t))
    ELSE Nothing

IoStates == {"entry_io", "exit_io", "time_io"}

\* where a task is once its controller call has returned: read_inbox loops
\* to `await inbox.read()`, which returns an item at once or suspends
AfterCall(t) ==
    IF t = InboxTask
    THEN IF queue # <<>> THEN "dispatch" ELSE "reading"
    ELSE "idle"

\* (mutant) read_inbox reads its inbox again whenever the handler awaits
DequeuesAlways(t, o) == t = InboxTask

\* read_inbox awaits the next inbox.read() once the controller method it
\* awaited has returned
Dequeues(t, o) == t = InboxTask /\ o.pc = "done"

\* the effect of an outcome o of task t on the controller; fresh: the task
\* starts on command c, submitted in state sub
Apply(t, o, fresh, c, sub) ==
    /\ state' = IF o.st = "same" THEN state ELSE o.st
    /\ tpc' = [tpc EXCEPT ![t] = IF o.pc = "done" THEN AfterCall(t) ELSE o.pc]
    /\ ttarget' = [ttarget EXCEPT ![t] = o.tgt]
    /\ link' = IF o.cmd # <<>> THEN o.cmd[1]
               ELSE IF tpc[t] \in IoStates THEN "idle" ELSE link
    /\ tcmd' = [tcmd EXCEPT ![t] = IF fresh THEN c ELSE @]
    /\ tfrom' = [tfrom EXCEPT ![t] = IF fresh THEN state ELSE @]
    /\ tsubmitted' = [tsubmitted EXCEPT ![t] = IF fresh THEN sub ELSE @]
    /\ tentered' = [tentered EXCEPT ![t] =
            (IF fresh THEN <<>> ELSE @) \o (IF o.st = "same" THEN <<>> ELSE <<o.st>>)]
    /\ tissued' = [tissued EXCEPT ![t] = (IF fresh THEN <<>> ELSE @) \o o.cmd]
    /\ temitted' = [temitted EXCEPT ![t] = (IF fresh THEN <<>> ELSE @) \o o.em]
    /\ tresult' = [tresult EXCEPT ![t] = IF fresh \/ o.res # None THEN o.res ELSE @]
    /\ cwire' = cwire \o o.cmd
    /\ signals' = signals \o o.em
    /\ events' = events
            \o (IF fresh THEN <<<<"call", c, t>>>> ELSE <<>>)
            \o [i \in 1..Len(o.ev) |-> <<o.ev[i][1], o.ev[i][2], t>>]
            \o (IF o.pc = "done" THEN <<<<"return", tcmd'[t], t>>>> ELSE <<>>)
            \o (IF Dequeues(t, o) /\ queue # <<>>
                THEN <<<<"read", "inbox", t>>>> ELSE <<>>)
    /\ IF Dequeues(t, o)
       THEN QueueGet(InboxTask)
       ELSE UNCHANGED <<queue, held, received, rpc, getters>>

\* AsyncController.__init__ with initial_state = Idle()
ControllerCtor ==
    /\ state = "Idle"
    /\ tpc = [t \in Tasks |-> IF t = InboxTask THEN "init" ELSE "idle"]
    /\ ttarget = [t \in Tasks |-> "none"]
    /\ link = "idle"
    /\ tcmd = [t \in Tasks |-> "none"]
    /\ tfrom = [t \in Tasks |-> "none"]
    /\ tsubmitted = [t \in Tasks |-> "none"]
    /\ tentered = [t \in Tasks |-> <<>>]
    /\ tissued = [t \in Tasks |-> <<>>]
    /\ temitted = [t \in Tasks |-> <<>>]
    /\ tresult = [t \in Tasks |-> None]
    /\ cwire = <<>>
    /\ signals = <<>>
    /\ sentAt = <<>>
    /\ sentPc = <<>>
    /\ ndirect = 0
    /\ events = <<>>
    /\ reported = <<>>

\* async_controller_main: controller.initialize() runs the on_entry of the
\* initial state, then read_inbox is started and awaits its first read
ControllerInitialize ==
    /\ tpc[InboxTask] = "init"
    /\ Apply(InboxTask, OnEntry(state), TRUE, "initialize", state)
    /\ UNCHANGED <<sentAt, sentPc, ndirect, reported>>
    /\ UNCHANGED <<slot, chanWaiter, spc, chanOf, request, result, sent,
                   sendAfterRead, replyLog, maxsize, cancelledAt, sendRaised>>

\* a message is put into the controller's inbox (the GUI's buttons through
\* send_controller_message, periodically_get_status)
ControllerSend(m) ==
    /\ Send(m)
    /\ sentAt' = Append(sentAt, state)
    /\ sentPc' = Append(sentPc, tpc[InboxTask] = "entry_io")
    /\ UNCHANGED <<state, tpc, ttarget, link, tcmd, tfrom, tsubmitted, tentered,
                   tissued, temitted, tresult, cwire, signals, ndirect, events,
                   reported>>

\* the suspended read of read_inbox is resumed by a put
InboxResume ==
    /\ tpc[InboxTask] = "reading"
    /\ rpc[InboxTask] = "woken"
    /\ QueueGet(InboxTask)
    /\ tpc' = [tpc EXCEPT ![InboxTask] = AfterCall(InboxTask)]
    /\ events' = IF queue # <<>>
                 THEN Append(events, <<"read", "inbox", InboxTask>>) ELSE events
    /\ UNCHANGED <<state, ttarget, link, tcmd, tfrom, tsubmitted, tentered,
                   tissued, temitted, tresult, cwire, signals, sentAt, sentPc,
                   ndirect, reported>>
    /\ UNCHANGED <<slot, chanWaiter, spc, chanOf, request, result, sent,
                   sendAfterRead, replyLog, maxsize, cancelledAt, sendRaised>>

\* read_inbox matches the message it has read and awaits the controller method
\* (a step of its own here; in the code it follows the read without an await,
\* so the model allows sends and direct calls in between that the code does not)
InboxDispatch ==
    /\ tpc[InboxTask] = "dispatch"
    /\ Apply(InboxTask, Handle(state, CommandOf(held[InboxTask])), TRUE,
             CommandOf(held[InboxTask]), sentAt[Len(received)])
    /\ UNCHANGED <<sentAt, sentPc, ndirect, reported>>
    /\ UNCHANGED <<slot, chanWaiter, spc, chanOf, request, result, sent,
                   sendAfterRead, replyLog, maxsize, cancelledAt, sendRaised>>

\* another task calls start / stop / abort_camera_exposure on the controller
DirectCall(c) ==
    /\ tpc[DirectTask] = "idle"
    /\ Apply(DirectTask, Handle(state, c), TRUE, c, state)
    /\ ndirect' = ndirect + 1
    /\ UNCHANGED <<sentAt, sentPc, reported>>
    /\ UNCHANGED <<slot, chanWaiter, spc, chanOf, request, result, sent,
                   sendAfterRead, replyLog, maxsize, cancelledAt, sendRaised>>

\* the device's response line arrives and the awaiting task goes on; the
\* device answers get_exposing_time with a number and the rest with "ok"
DeviceAnswer(t, v) ==
    /\ tpc[t] \in IoStates
    /\ (tpc[t] = "time_io") = (v # Ack)
    /\ reported' = Append(reported, v)
    /\ Apply(t, Resume(t, v), FALSE, "none", "none")
    /\ UNCHANGED <<sentAt, sentPc, ndirect>>
    /\ UNCHANGED <<slot, chanWaiter, spc, chanOf, request, result, sent,
                   sendAfterRead, replyLog, maxsize, cancelledAt, sendRaised>>

\* the asyncio.sleep(2) of an entry hook is over: _transition_to(Idle())
SleepDone(t) ==
    /\ tpc[t] = "sleep"
    /\ Apply(t, Resume(t, None), FALSE, "none", "none")
    /\ UNCHANGED <<sentAt, sentPc, ndirect, reported>>
    /\ UNCHANGED <<slot, chanWaiter, spc, chanOf, request, result, sent,
                   sendAfterRead, replyLog, maxsize, cancelledAt, sendRaised>>

(***************************************************************************)
(* The device server: CameraServer and the connection handler handle_echo. *)
(***************************************************************************)
VARIABLES
    camera_server,      \* the CameraServer object: its three private fields
    now,                \* time.time()
    continue_listening, \* handle_echo's local flag
    hpc,                \* handle_echo: "reading", "draining", "closing",
                        \* "closed", "raised"
    requests,           \* history: the request lines read
    written             \* history: the response lines written

srvVars == <<camera_server, now, continue_listening, hpc, requests, written>>

MaxRequests == 3
MaxClock == 2

\* the unset exposure start time
NoTime == -1

\* the lines of the protocol, and a line that is none of them (an empty line
\* at end of stream included)
ProtocolLines == {"start_exposure", "stop_exposure", "get_exposing_time", "get_state"}
RequestLines == ProtocolLines \cup {"other"}

\* CameraServer.__init__
CameraServerNew == [exposing |-> FALSE, idle |-> TRUE, exposure_start_time |-> NoTime]

\* CameraServer.start_exposure at time t
ServerStartExposure(cs, t) ==
    [exposing |-> TRUE, idle |-> FALSE, exposure_start_time |-> t]

\* a stop_exposure that clears the exposing flag and the start time only
ServerStopExposureKeepsIdle(cs) ==
    [exposing |-> FALSE, idle |-> cs.idle, exposure_start_time |-> NoTime]

\* CameraServer.stop_exposure
ServerStopExposure(cs) ==
    [exposing |-> FALSE, idle |-> TRUE, exposure_start_time |-> NoTime]

\* CameraServer.get_state
ServerGetState(cs) ==
    IF cs.exposing THEN "exposing" ELSE IF cs.idle THEN "idle" ELSE "unknown"

\* CameraServer.get_exposing_time raises TypeError on float - None
ServerTimeRaises(cs) == cs.exposure_start_time = NoTime

\* CameraServer.get_exposing_time at time t
ServerGetExposingTime(cs, t) == <<"seconds", t - cs.exposure_start_time>>

\* the CameraServer after the request line, read at time t
ServerAfter(cs, line, t) ==
    IF line = "start_exposure" THEN ServerStartExposure(cs, t)
    ELSE IF line = "stop_exposure" THEN ServerStopExposure(cs)
    ELSE cs

\* the response of the match statement to the request line
ServerResponse(cs, line, t) ==
    IF line \in {"start_exposure", "stop_exposure"} THEN "ok"
    ELSE IF line = "get_exposing_time" THEN ServerGetExposingTime(cs, t)
    ELSE IF line = "get_state" THEN ServerGetState(cs)
    ELSE ""

\* main(): one CameraServer, and a connection whose handler awaits readline()
ServerCtor ==
    /\ camera_server = CameraServerNew
    /\ now = 0
    /\ continue_listening = TRUE
    /\ hpc = "reading"
    /\ requests = <<>>
    /\ written = <<>>

\* time passes
Tick ==
    /\ now < MaxClock
    /\ now' = now + 1
    /\ UNCHANGED <<camera_server, continue_listening, hpc, requests, written>>

\* readline() returns a line: the match statement runs, the response is
\* written, and the handler awaits drain(); get_exposing_time raises when no
\* exposure was started, and the handler ends there
HandleEcho(line) ==
    /\ hpc = "reading"
    /\ requests' = Append(requests, line)
    /\ IF line = "get_exposing_time" /\ ServerTimeRaises(camera_server)
       THEN /\ hpc' = "raised"
            /\ UNCHANGED <<camera_server, continue_listening, written>>
       ELSE /\ camera_server' = ServerAfter(camera_server, line, now)
            /\ continue_listening' = (continue_listening /\ line \in ProtocolLines)
            /\ written' = Append(written, ServerResponse(camera_server, line, now))
            /\ hpc' = "draining"
    /\ UNCHANGED now

\* drain() returns: the loop condition is tested
DrainDone ==
    /\ hpc = "draining"
    /\ hpc' = IF continue_listening THEN "reading" ELSE "closing"
    /\ UNCHANGED <<camera_server, now, continue_listening, requests, written>>

\* writer.close() and wait_closed()
CloseDone ==
    /\ hpc = "closing"
    /\ hpc' = "closed"
    /\ UNCHANGED <<camera_server, now, continue_listening, requests, written>>

vars == <<inboxVars, workerVars, ctlVars, srvVars>>
(***************************************************************************)
(* Specifications.                                                         *)
(***************************************************************************)
\* the number of plain items enqueued so far
PlainSent == Cardinality({i \in 1..Len(sent) : ~IsTuple2(sent[i])})

\* the reply() calls made so far on the channel reader r holds
RepliesMade(r) ==
    IF HoldsChannel(r)
    THEN Len(replyLog[held[r][3][2]]) ELSE 0

\* an inbox of its own, beside a worker that is never run
FifoInit ==
    /\ InboxInit
    /\ WorkerCtor("core", FALSE)
    /\ ControllerCtor
    /\ ServerCtor

\* sends and reads of plain messages only
FifoNext ==
    \/ \E m \in Payloads : PlainSent < MaxSend /\ Send(m) /\ UNCHANGED <<workerVars, ctlVars, srvVars>>
    \/ \E r \in Readers : ReadCall(r) /\ UNCHANGED <<workerVars, ctlVars, srvVars>>
    \/ \E r \in Readers : ReadResume(r) /\ UNCHANGED <<workerVars, ctlVars, srvVars>>

SpecFifo == FifoInit /\ [][FifoNext]_vars

\* the calls of send() so far
SendCalls == Len(sent) + sendRaised

\* AsyncInbox(maxsize = n) for any n, its senders and its reader
BoundedInit ==
    /\ maxsize \in 0..MaxSize
    /\ sendRaised = 0
    /\ cancelledAt = [t \in SyncSenders |-> "none"]
    /\ queue = <<>>
    /\ getters = <<>>
    /\ rpc = [r \in Readers |-> "idle"]
    /\ held = [r \in Readers |-> None]
    /\ slot = [c \in Channels |-> <<>>]
    /\ chanWaiter = [c \in Channels |-> 0]
    /\ spc = [t \in SyncSenders |-> "idle"]
    /\ chanOf = [t \in SyncSenders |-> 0]
    /\ request = [t \in SyncSenders |-> None]
    /\ result = [t \in SyncSenders |-> None]
    /\ sent = <<>>
    /\ received = <<>>
    /\ sendAfterRead = FALSE
    /\ replyLog = [c \in Channels |-> <<>>]
    /\ WorkerCtor("core", FALSE)
    /\ ControllerCtor
    /\ ServerCtor

BoundedNext ==
    \/ \E m \in Payloads :
            SendCalls < MaxSend /\ Send(m) /\ UNCHANGED <<workerVars, ctlVars, srvVars>>
    \/ \E r \in Readers : ReadCall(r) /\ UNCHANGED <<workerVars, ctlVars, srvVars>>
    \/ \E r \in Readers : ReadResume(r) /\ UNCHANGED <<workerVars, ctlVars, srvVars>>

SpecBounded == BoundedInit /\ [][BoundedNext]_vars

\* synchronous senders, one reader that replies
InboxNext ==
    \/ \E r \in Readers : ReadCall(r) /\ UNCHANGED <<workerVars, ctlVars, srvVars>>
    \/ \E r \in Readers : ReadResume(r) /\ UNCHANGED <<workerVars, ctlVars, srvVars>>
    \/ \E t \in SyncSenders, m \in Payloads :
            SendSynchronous(t, m) /\ UNCHANGED <<workerVars, ctlVars, srvVars>>
    \/ \E r \in Readers, v \in Payloads :
            RepliesMade(r) < MaxReply /\ Reply(r, v) /\ UNCHANGED <<workerVars, ctlVars, srvVars>>
    \/ \E t \in SyncSenders : ReadReplyResume(t) /\ UNCHANGED <<workerVars, ctlVars, srvVars>>
    \/ \E t \in SyncSenders : Cancel(t) /\ UNCHANGED <<workerVars, ctlVars, srvVars>>

SpecInbox == FifoInit /\ [][InboxNext]_vars

\* a send that refuses the message once run() has ended
WorkerSendChecked(m) ==
    /\ IF wpc \in {"ended", "failed"}
       THEN /\ sendRaised' = sendRaised + 1
            /\ sent' = Append(sent, m)
            /\ UNCHANGED <<queue, sendAfterRead, rpc, getters, held, slot,
                           chanWaiter, spc, chanOf, request, result, received,
                           replyLog, maxsize, cancelledAt>>
       ELSE Send(m)
    /\ sentAfterEnd' = Append(sentAfterEnd, wpc \in {"ended", "failed"})
    /\ UNCHANGED runVars

\* AsyncWorker.send: the message is put into the worker's inbox, whether or
\* not run() is still there to read it
WorkerSend(m) ==
    /\ Send(m)
    /\ sentAfterEnd' = IF QueueIsFull THEN sentAfterEnd
                       ELSE Append(sentAfterEnd, wpc \in {"ended", "failed"})
    /\ UNCHANGED runVars

\* AsyncWorker.send_synchronous: the caller awaits the reply on a new channel
WorkerSendSynchronous(t, m) ==
    /\ SendSynchronous(t, m)
    /\ sentAfterEnd' = Append(sentAfterEnd, wpc \in {"ended", "failed"})
    /\ UNCHANGED runVars

\* a worker of either variant, its senders and its device
WorkerInit ==
    /\ InboxInit
    /\ \E v \in {"core", "legacy"}, tol \in BOOLEAN : WorkerCtor(v, tol)
    /\ ControllerCtor
    /\ ServerCtor

WorkerNext ==
    \/ WorkerRun /\ UNCHANGED <<ctlVars, srvVars>>
    \/ InitializeOk /\ UNCHANGED <<ctlVars, srvVars>>
    \/ InitializeFail /\ UNCHANGED <<ctlVars, srvVars>>
    \/ WorkerReadResume /\ UNCHANGED <<ctlVars, srvVars>>
    \/ HandlerReturn /\ UNCHANGED <<ctlVars, srvVars>>
    \/ DeviceAck /\ UNCHANGED <<ctlVars, srvVars>>
    \/ \E v \in Responses : DeviceTime(v) /\ UNCHANGED <<ctlVars, srvVars>>
    \/ DeviceFail /\ UNCHANGED <<ctlVars, srvVars>>
    \/ ShutdownDone /\ UNCHANGED <<ctlVars, srvVars>>
    \/ scheduleCalls < MaxSchedule /\ ScheduleShutdown /\ UNCHANGED <<ctlVars, srvVars>>
    \/ \E m \in WorkerMessages :
            Len(sent) < MaxWorkerMsgs /\ WorkerSend(m) /\ UNCHANGED <<ctlVars, srvVars>>
    \/ \E t \in SyncSenders, m \in CameraMessages :
            /\ variant = "core"
            /\ Len(sent) < MaxWorkerMsgs
            /\ WorkerSendSynchronous(t, m)
            /\ UNCHANGED <<ctlVars, srvVars>>
    \/ \E t \in SyncSenders : ReadReplyResume(t) /\ UNCHANGED <<workerVars, ctlVars, srvVars>>

SpecWorker == WorkerInit /\ [][WorkerNext]_vars

\* plain and synchronous senders on one inbox, one reader that replies
MixedNext ==
    \/ \E m \in Payloads : PlainSent < MaxPlain /\ Send(m) /\ UNCHANGED <<workerVars, ctlVars, srvVars>>
    \/ \E t \in SyncSenders :
            SendSynchronous(t, Atom(t)) /\ UNCHANGED <<workerVars, ctlVars, srvVars>>
    \/ \E r \in Readers : ReadCall(r) /\ UNCHANGED <<workerVars, ctlVars, srvVars>>
    \/ \E r \in Readers : ReadResume(r) /\ UNCHANGED <<workerVars, ctlVars, srvVars>>
    \/ \E r \in Readers :
            RepliesMade(r) < MaxReply /\ Reply(r, Ack) /\ UNCHANGED <<workerVars, ctlVars, srvVars>>
    \/ \E t \in SyncSenders : ReadReplyResume(t) /\ UNCHANGED <<workerVars, ctlVars, srvVars>>
    \/ \E t \in SyncSenders : Cancel(t) /\ UNCHANGED <<workerVars, ctlVars, srvVars>>

SpecMixed == FifoInit /\ [][MixedNext]_vars

\* the tasks that read one inbox concurrently
ManyReaders == {1, 2, 3}

\* one unbounded inbox with several reader tasks
ReadersInit ==
    /\ maxsize = 0
    /\ sendRaised = 0
    /\ cancelledAt = [t \in SyncSenders |-> "none"]
    /\ queue = <<>>
    /\ getters = <<>>
    /\ rpc = [r \in ManyReaders |-> "idle"]
    /\ held = [r \in ManyReaders |-> None]
    /\ slot = [c \in Channels |-> <<>>]
    /\ chanWaiter = [c \in Channels |-> 0]
    /\ spc = [t \in SyncSenders |-> "idle"]
    /\ chanOf = [t \in SyncSenders |-> 0]
    /\ request = [t \in SyncSenders |-> None]
    /\ result = [t \in SyncSenders |-> None]
    /\ sent = <<>>
    /\ received = <<>>
    /\ sendAfterRead = FALSE
    /\ replyLog = [c \in Channels |-> <<>>]
    /\ WorkerCtor("core", FALSE)
    /\ ControllerCtor
    /\ ServerCtor

ReadersNext ==
    \/ \E m \in Payloads : PlainSent < MaxSend /\ Send(m) /\ UNCHANGED <<workerVars, ctlVars, srvVars>>
    \/ \E r \in ManyReaders : ReadCall(r) /\ UNCHANGED <<workerVars, ctlVars, srvVars>>
    \/ \E r \in ManyReaders : ReadResume(r) /\ UNCHANGED <<workerVars, ctlVars, srvVars>>

SpecReaders == ReadersInit /\ [][ReadersNext]_vars

\* the steps run() takes by itself once the event loop schedules it: the
\* awaited hook, read, handler or device response completes
WorkerStep ==
    \/ WorkerRun
    \/ InitializeOk
    \/ WorkerReadResume
    \/ HandlerReturn
    \/ DeviceAck
    \/ \E v \in Responses : DeviceTime(v)
    \/ ShutdownDone

\* the worker under an event loop that runs every task that can go on; the
\* senders and the callers of schedule_shutdown are free to stop
SpecWorkerFair ==
    WorkerInit /\ [][WorkerNext]_vars /\ WF_vars(WorkerStep /\ UNCHANGED <<ctlVars, srvVars>>)

\* the commands submitted so far, through the inbox and by direct call
Submitted == Len(sent) + ndirect

\* the controller as async_controller_main runs it, the senders to its inbox,
\* and a task that calls the controller while it saves or aborts
ControllerInit ==
    /\ InboxInit
    /\ WorkerCtor("core", FALSE)
    /\ ControllerCtor
    /\ ServerCtor

ControllerNext ==
    \/ ControllerInitialize /\ UNCHANGED <<workerVars, srvVars>>
    \/ \E m \in GuiMessages :
            Submitted < MaxCmds /\ ControllerSend(m) /\ UNCHANGED <<workerVars, srvVars>>
    \/ /\ tpc[InboxTask] # "init"
       /\ Submitted < MaxCmds
       /\ ControllerSend(CTL_GET_EXPOSING_TIME)
       /\ UNCHANGED <<workerVars, srvVars>>
    \/ InboxResume /\ UNCHANGED <<workerVars, srvVars>>
    \/ InboxDispatch /\ UNCHANGED <<workerVars, srvVars>>
    \/ \E c \in {"start", "stop", "abort", "time"} :
            /\ state \in {"Saving", "Aborting"}
            /\ Submitted < MaxCmds
            /\ DirectCall(c)
            /\ UNCHANGED <<workerVars, srvVars>>
    \/ \E t \in Tasks, v \in Payloads \cup {Ack} :
            DeviceAnswer(t, v) /\ UNCHANGED <<workerVars, srvVars>>
    \/ \E t \in Tasks : SleepDone(t) /\ UNCHANGED <<workerVars, srvVars>>

SpecController == ControllerInit /\ [][ControllerNext]_vars

\* the device server on one connection, fed any request lines
ServerInit ==
    /\ InboxInit
    /\ WorkerCtor("core", FALSE)
    /\ ControllerCtor
    /\ ServerCtor

ServerNext ==
    \/ Tick /\ UNCHANGED <<inboxVars, workerVars, ctlVars>>
    \/ \E line \in RequestLines :
            /\ Len(requests) < MaxRequests
            /\ HandleEcho(line)
            /\ UNCHANGED <<inboxVars, workerVars, ctlVars>>
    \/ DrainDone /\ UNCHANGED <<inboxVars, workerVars, ctlVars>>
    \/ CloseDone /\ UNCHANGED <<inboxVars, workerVars, ctlVars>>

SpecServer == ServerInit /\ [][ServerNext]_vars

(***************************************************************************)
(* Claims.                                                                 *)
(***************************************************************************)
\* the item send_synchronous enqueued for caller t
SyncItem(t) == Tup(request[t], Chan(chanOf[t]))

\* the reply() calls on channel c that deposited their value
Deposited(c) == SelectSeq(replyLog[c], LAMBDA e : e[2] = "ok")

\* C1: messages sent with no read in between are read back in send order,
\* unmodified, none dropped and none duplicated: what has been read is the
\* beginning of what was sent and the rest is still queued in that order.
C1_FifoOrder ==
    ~sendAfterRead =>
        /\ Len(received) <= Len(sent)
        /\ received = SubSeq(sent, 1, Len(received))
        /\ queue = SubSeq(sent, Len(received) + 1, Len(sent))

C1_Witness ==
    /\ ~sendAfterRead
    /\ Len(sent) = MaxSend
    /\ received = sent
    /\ sent[1] # sent[2]

\* C2: send_synchronous(m) returns the value of the reply() call made on the
\* channel that read() delivered together with m: the first reply deposited
\* on the caller's own channel, made by the reader while it held (m, channel).
C2_SyncRoundTrip ==
    \A t \in SyncSenders :
        spc[t] = "done" =>
            /\ Deposited(chanOf[t]) # <<>>
            /\ result[t] = Deposited(chanOf[t])[1][1]
            /\ Deposited(chanOf[t])[1][3] = request[t]
            /\ \E i \in 1..Len(received) : received[i] = SyncItem(t)

C2_Witness ==
    /\ \A t \in SyncSenders : spc[t] = "done"
    /\ request[1] = request[2]
    /\ result[1] # result[2]
    /\ received[1] = SyncItem(2)

\* C3: a send_synchronous whose item nobody has read and replied to has not
\* returned: its item has been enqueued and the caller is suspended, or has
\* been cancelled from outside.
C3_SyncBlocks ==
    \A t \in SyncSenders :
        spc[t] # "idle" =>
            /\ \E i \in 1..Len(sent) : sent[i] = SyncItem(t)
            /\ Deposited(chanOf[t]) = <<>> =>
                    /\ spc[t] \in {"waiting", "cancelled"}
                    /\ result[t] = None

C3_Witness ==
    /\ spc[1] = "cancelled"
    /\ received = <<>>
    /\ queue = <<SyncItem(1)>>

\* run() has returned or has ended with an exception
WorkerOver == wpc \in {"ended", "failed"}

\* C9: once the receive loop has been left normally, after schedule_shutdown(),
\* and run() is over, _shutdown has been invoked exactly once and the
\* shutdown flag is true.
C9_NormalExitShutsDown ==
    (exitKind = "normal" /\ WorkerOver) =>
        (shutdownCalls = 1 /\ is_shutdown)

\* C10: after a message handler has failed, _shutdown is invoked exactly
\* once, no handler runs and nothing is read or reconnected any more, and
\* when run() is over the shutdown flag is true.
C10_FailureShutsDown ==
    (exitKind = "exception" /\ is_initialized) =>
        /\ shutdownCalls = 1
        /\ wpc \in {"shutting_down", "ended", "failed"}
        /\ awaiting = "none"
        /\ WorkerOver => is_shutdown

C10_Witness ==
    /\ exitKind = "exception"
    /\ is_initialized
    /\ WorkerOver
    /\ is_shutdown
    /\ queue # <<>>
    /\ Len(handled) = 1

\* the controller call of task t has returned
CallOver(t) == tpc[t] \in {"dispatch", "reading", "idle"}

\* the command task t handles has changed nothing: no state made current, no
\* device command written, no notification emitted
NoEffect(t) == tentered[t] = <<>> /\ tissued[t] = <<>> /\ temitted[t] = <<>>

Busy == {"Saving", "Aborting"}

\* C4: a start-exposure command dispatched while the controller is in Idle
\* makes Exposing the current state and writes exactly one start_exposure
\* command, and no stop_exposure, to the device.
C4_StartFromIdle ==
    \A t \in Tasks :
        (tcmd[t] = "start" /\ tfrom[t] = "Idle") =>
            /\ tentered[t] = <<"Exposing">>
            /\ tissued[t] = <<"start_exposure">>
            /\ state = "Exposing"
            /\ tpc[t] = "entry_io" \/ CallOver(t)

C4_Witness ==
    /\ tcmd[InboxTask] = "start"
    /\ tfrom[InboxTask] = "Idle"
    /\ CallOver(InboxTask)
    /\ state = "Exposing"
    /\ cwire = <<"start_exposure">>

\* C5: a stop-exposure command dispatched while the controller is in Exposing
\* writes exactly one stop_exposure command during the exit of Exposing, then
\* makes Saving the current state, and after the save delay, which needs no
\* further command, makes Idle the current state and returns.
C5_StopFromExposing ==
    \A t \in Tasks :
        (tcmd[t] = "stop" /\ tfrom[t] = "Exposing") =>
            /\ tissued[t] = <<"stop_exposure">>
            /\ tpc[t] = "exit_io" \/ tpc[t] = "sleep" \/ CallOver(t)
            /\ tpc[t] = "exit_io" => (state = "Exposing" /\ tentered[t] = <<>>)
            /\ tpc[t] = "sleep" =>
                   /\ state = "Saving"
                   /\ tentered[t] = <<"Saving">>
                   /\ ENABLED SleepDone(t)
            /\ CallOver(t) =>
                   (state = "Idle" /\ tentered[t] = <<"Saving", "Idle">>)

C5_Witness ==
    /\ tcmd[InboxTask] = "stop"
    /\ tfrom[InboxTask] = "Exposing"
    /\ CallOver(InboxTask)
    /\ state = "Idle"
    /\ cwire = <<"start_exposure", "stop_exposure">>
    /\ Len(sent) = 2

\* C6: an abort-exposure command dispatched while the controller is in
\* Exposing writes exactly one stop_exposure command during the exit of
\* Exposing, then makes Aborting the current state, and after the delay,
\* which needs no further command, makes Idle the current state and returns.
C6_AbortFromExposing ==
    \A t \in Tasks :
        (tcmd[t] = "abort" /\ tfrom[t] = "Exposing") =>
            /\ tissued[t] = <<"stop_exposure">>
            /\ tpc[t] = "exit_io" \/ tpc[t] = "sleep" \/ CallOver(t)
            /\ tpc[t] = "exit_io" => (state = "Exposing" /\ tentered[t] = <<>>)
            /\ tpc[t] = "sleep" =>
                   /\ state = "Aborting"
                   /\ tentered[t] = <<"Aborting">>
                   /\ ENABLED SleepDone(t)
            /\ CallOver(t) =>
                   (state = "Idle" /\ tentered[t] = <<"Aborting", "Idle">>)

C6_Witness ==
    /\ tcmd[InboxTask] = "abort"
    /\ tfrom[InboxTask] = "Exposing"
    /\ CallOver(InboxTask)
    /\ state = "Idle"
    /\ cwire = <<"start_exposure", "stop_exposure">>
    /\ Len(sent) = 2

\* C7: a stop or an abort dispatched while the controller is in Idle, and a
\* start dispatched while it is in Exposing, return at once and leave the
\* current state as it is, write no device command and emit no notification.
C7_InvalidEventNoOp ==
    \A t \in Tasks :
        (\/ tfrom[t] = "Idle" /\ tcmd[t] \in {"stop", "abort"}
         \/ tfrom[t] = "Exposing" /\ tcmd[t] = "start") =>
            /\ NoEffect(t)
            /\ CallOver(t)
            /\ state = tfrom[t]

C7_Witness ==
    /\ tcmd[InboxTask] = "start"
    /\ tfrom[InboxTask] = "Exposing"
    /\ CallOver(InboxTask)
    /\ state = "Exposing"
    /\ cwire = <<"start_exposure">>
    /\ Len(received) = 2

\* C8 (as stated): a start, stop or abort submitted, by direct call or
\* through the inbox, while the current state is Saving or Aborting never
\* has an effect, neither then nor after the controller is back in Idle.
C8_DiscardedForGood ==
    \A t \in Tasks :
        (tcmd[t] \in {"start", "stop", "abort"} /\ tsubmitted[t] \in Busy) =>
            NoEffect(t)

\* C8 (amended): a start, stop or abort dispatched while the current state is
\* Saving or Aborting, which only a direct call can be, is discarded; while
\* the state is Saving or Aborting read_inbox is inside the handler that
\* entered it, so a command sent to the inbox meanwhile stays queued, is
\* dispatched in Idle or Exposing, and a start among them that is dispatched
\* in Idle makes Exposing the current state.
C8_DiscardedOrDeferred ==
    /\ \A t \in Tasks :
           (tcmd[t] \in {"start", "stop", "abort"} /\ tfrom[t] \in Busy) =>
               (t = DirectTask /\ NoEffect(t) /\ CallOver(t))
    /\ state \in Busy =>
           /\ tpc[InboxTask] = "sleep"
           /\ tcmd[InboxTask] \in {"stop", "abort"}
           /\ Len(queue) = Len(sent) - Len(received)
    /\ (tcmd[InboxTask] # "none" /\ tsubmitted[InboxTask] \in Busy) =>
           /\ tfrom[InboxTask] \in {"Idle", "Exposing"}
           /\ (tcmd[InboxTask] = "start" /\ tfrom[InboxTask] = "Idle") =>
                  tentered[InboxTask] = <<"Exposing">>

C8_Witness ==
    /\ tcmd[InboxTask] = "start"
    /\ tsubmitted[InboxTask] = "Saving"
    /\ tentered[InboxTask] = <<"Exposing">>
    /\ tcmd[DirectTask] = "start"
    /\ tfrom[DirectTask] = "Saving"
    /\ NoEffect(DirectTask)

\* C11: once schedule_shutdown() has been called, however often, the running
\* flag is false for good, _shutdown has run at most once, and a worker whose
\* run() is over has run _shutdown exactly once.
C11_ScheduleShutdownOnce ==
    scheduleCalls >= 1 =>
        /\ ~keep_running
        /\ shutdownCalls <= 1
        /\ WorkerOver => shutdownCalls = 1

\* the item was enqueued by send_synchronous: it carries a ReplyChannel
SentSynchronous(item) == IsTuple2(item) /\ item[3][1] = "chan"

\* C12: the k-th item the worker loop reads is handled by
\* _receive_message(m) if send(m) enqueued it, whatever m is, and by
\* _receive_synchronous_message(m, channel) if send_synchronous(m) did.
C12_DispatchByOrigin ==
    \A k \in 1..Len(handled) :
        handled[k] = IF variant = "core" /\ SentSynchronous(received[k])
                     THEN <<"sync", received[k][2], received[k][3]>>
                     ELSE <<"plain", received[k], None>>

\* C13: on any one ReplyChannel at most one reply() ever deposits its value,
\* whether or not an earlier value has been read, and a value is returned to
\* the reader of the channel only after one has been deposited.
C13_AtMostOneDeposit ==
    \A c \in Channels :
        /\ Len(Deposited(c)) <= 1
        /\ \A t \in SyncSenders :
               (chanOf[t] = c /\ spc[t] = "done") => Deposited(c) # <<>>

\* C14: on the connection of the worker's client the request lines written
\* outnumber the response lines read by 0 or by 1, and by 1 exactly while a
\* handler awaits the response to the newest request (or the connection has
\* failed under it); so no request is written before the response to the
\* previous one has been read, however many tasks send and whenever.
C14_OneInFlight ==
    /\ Len(wire) - nread \in {0, 1}
    /\ awaiting # "none" =>
           (Len(wire) - nread = 1 /\ awaiting = wire[Len(wire)] /\ wpc = "handling")
    /\ (Len(wire) - nread = 1 /\ awaiting = "none") => exitKind = "exception"

C14_Witness ==
    /\ Len(wire) = 2
    /\ nread = 1
    /\ awaiting = "get_exposing_time"
    /\ \E t \in SyncSenders : spc[t] = "waiting"

\* C18: when float() rejects the device's response to get_exposing_time, the
\* send_synchronous call that asked for the exposing time does not stay
\* suspended once the worker has dealt with the failure, and the command is
\* not written again.
C18_FailureSurfaced ==
    \A t \in SyncSenders :
        (chanOf[t] # 0 /\ malformedFor = Chan(chanOf[t]) /\ WorkerOver) =>
            /\ spc[t] # "waiting"
            /\ wire[Len(wire)] = "get_exposing_time"

\* C17: send(message) never raises and always enqueues the message, however
\* many items are pending and whatever maxsize the inbox was built with.
C17_SendNeverFails ==
    /\ sendRaised = 0
    /\ Len(sent) = SendCalls

\* C15: get_exposing_time makes no state current in any state; dispatched in
\* Idle, Saving or Aborting it returns at once with 0.0, having written no
\* device command; dispatched in Exposing it writes exactly one
\* get_exposing_time command and returns the value the device reported; what
\* it emits is exactly one exposing-time notification with the value returned.
C15_ExposingTime ==
    \A t \in Tasks :
        tcmd[t] = "time" =>
            /\ tentered[t] = <<>>
            /\ t = InboxTask => state = tfrom[t]
            /\ tfrom[t] # "Exposing" =>
                   /\ CallOver(t)
                   /\ tissued[t] = <<>>
                   /\ tresult[t] = ZeroTime
            /\ tfrom[t] = "Exposing" =>
                   /\ tissued[t] = <<"get_exposing_time">>
                   /\ tpc[t] = "time_io" \/ CallOver(t)
                   /\ tpc[t] = "time_io" => temitted[t] = <<>>
                   /\ CallOver(t) => tresult[t] = reported[Len(reported)]
            /\ CallOver(t) => temitted[t] = <<<<"set_exposing_time", tresult[t]>>>>

C15_Witness ==
    /\ tcmd[InboxTask] = "time"
    /\ tfrom[InboxTask] = "Exposing"
    /\ CallOver(InboxTask)
    /\ tresult[InboxTask] = Atom(2)
    /\ cwire = <<"start_exposure", "get_exposing_time">>
    /\ signals[Len(signals)] = <<"set_exposing_time", Atom(2)>>

\* the reads of the inbox by read_inbox and the calls and returns of the
\* controller methods it awaits, in order
InboxEvents ==
    SelectSeq(events, LAMBDA e : e[3] = InboxTask /\ e[1] \in {"read", "call", "return"})

\* the events of kind k among the first n of a sequence
CountKind(es, k) == Cardinality({i \in 1..Len(es) : es[i][1] = k})

\* C16: read_inbox reads a message only after the controller method called
\* for the previous one (or initialize) has returned, calls a method only for
\* a message just read, and every state change, exit hook and entry hook of
\* the task lies between such a call and its return; so at most one handler
\* is active and at most one message has been read and not handled to its end.
C16_OneMessageAtATime ==
    LET ie == InboxEvents
        reads == CountKind(ie, "read")
        calls == CountKind(ie, "call")
        returns == CountKind(ie, "return")
    IN  /\ \A i \in 1..Len(ie) :
               /\ ie[i][1] = "read" => (i > 1 /\ ie[i - 1][1] = "return")
               /\ ie[i][1] = "call" =>
                      \/ i = 1 /\ ie[i][2] = "initialize"
                      \/ i > 1 /\ ie[i - 1][1] = "read"
               /\ ie[i][1] = "return" =>
                      (i > 1 /\ ie[i - 1] = <<"call", ie[i][2], InboxTask>>)
        /\ reads = Len(received)
        /\ Len(received) - (returns - 1) \in {0, 1}
        /\ tpc[InboxTask] \in IoStates \cup {"sleep"} =>
               /\ ie[Len(ie)][1] = "call"
               /\ calls - 1 = Len(received)

C16_Witness ==
    /\ tpc[InboxTask] = "sleep"
    /\ Len(queue) = 2
    /\ queue[1] = CTL_GET_EXPOSING_TIME
    /\ queue[2] = START_CAMERA_EXPOSURE
    /\ Len(received) = 2

\* the notifications that name a state, in the order emitted
StateSignals == SelectSeq(signals, LAMBDA g : g[1] # "set_exposing_time")

\* the entry hooks started, in order
Entries == SelectSeq(events, LAMBDA e : e[1] = "on_entry")

\* C19: every entry hook, the one initialize() runs and the one after every
\* state change, emits the notification of its state as the first thing it
\* does, before its device command or sleep, and nothing else emits a state
\* notification; so the state notifications are the states entered, in order.
C19_EntryNotifies ==
    /\ Len(StateSignals) = Len(Entries)
    /\ \A i \in 1..Len(Entries) : StateSignals[i][1] = SignalOf(Entries[i][2])
    /\ \A i \in 1..Len(events) :
           /\ events[i][1] = "on_entry" =>
                  /\ i < Len(events)
                  /\ events[i + 1] = <<"emit", SignalOf(events[i][2]), events[i][3]>>
                  /\ \/ events[i - 1] = <<"state", events[i][2], events[i][3]>>
                     \/ events[i - 1] = <<"call", "initialize", events[i][3]>>
           /\ events[i][1] = "state" =>
                  (i < Len(events) /\ events[i + 1][1] = "on_entry")
           /\ (events[i][1] = "emit" /\ events[i][2] # "set_exposing_time") =>
                  events[i - 1][1] = "on_entry"

C19_Witness ==
    /\ Len(StateSignals) = 4
    /\ StateSignals[1][1] = "idle"
    /\ StateSignals[2][1] = "exposing"
    /\ StateSignals[3][1] = "saving"
    /\ StateSignals[4][1] = "idle"
    /\ state = "Idle"

\* C20: every state change is directly preceded by the return of the old
\* state's exit hook and directly followed by the start of the new state's
\* entry hook, in the same task; between the start and the return of an exit
\* hook, its device I/O included, no state change happens; and while a task
\* is inside an entry hook the current state is the one it has entered.
C20_TransitionOrder ==
    /\ \A i \in 1..Len(events) :
           /\ events[i][1] = "state" =>
                  /\ i > 1 /\ i < Len(events)
                  /\ events[i - 1][1] = "on_exit_done"
                  /\ events[i - 1][3] = events[i][3]
                  /\ events[i + 1] = <<"on_entry", events[i][2], events[i][3]>>
           /\ events[i][1] = "on_exit_done" =>
                  /\ i < Len(events)
                  /\ events[i + 1][1] = "state"
                  /\ \E j \in 1..(i - 1) :
                         /\ events[j] = <<"on_exit", events[i][2], events[i][3]>>
                         /\ \A k \in j..i : events[k][1] # "state"
    /\ \A t \in Tasks :
           /\ tpc[t] = "exit_io" =>
                  /\ state = "Exposing"
                  /\ events[Len(events) - 1] = <<"on_exit", "Exposing", t>>
           /\ tpc[t] \in {"entry_io", "sleep"} => state = Inside(t)

C20_Witness ==
    /\ tpc[InboxTask] = "sleep"
    /\ state = "Aborting"
    /\ \E i \in 1..Len(events) : events[i] = <<"on_exit_done", "Exposing", InboxTask>>
    /\ queue # <<>>

\* the number of _transition_to calls that have begun and not returned after
\* the first i events
Depth(i) ==
    Cardinality({j \in 1..i : events[j][1] = "transition"})
        - Cardinality({j \in 1..i : events[j][1] = "transition_done"})

\* C21 as claimed: at no point of a run is more than one call of
\* _transition_to in progress, the transition to Idle that the entry hooks of
\* SavingCameraImages and AbortingCameraExposure start included.
C21_OneTransition ==
    \A i \in 1..Len(events) : Depth(i) <= 1

\* C21: a call of _transition_to begins while another one is in progress only
\* as the transition to Idle that the entry hook of Saving or Aborting starts
\* after its sleep: it is then nested in the call that entered that state, in
\* the same task, and it returns before that call does; so at most two calls
\* are in progress, and two transitions of different tasks never overlap.
C21_NestedOnly ==
    \A i \in 1..Len(events) :
        /\ Depth(i) <= 2
        /\ (events[i][1] = "transition" /\ Depth(i) = 2) =>
               /\ events[i][2] = "Idle"
               /\ \E j \in 1..(i - 1) :
                      /\ events[j][1] = "transition"
                      /\ events[j][2] \in {"Saving", "Aborting"}
                      /\ events[j][3] = events[i][3]
                      /\ \A k \in (j + 1)..(i - 1) :
                             events[k][1] \notin {"transition", "transition_done"}
                      /\ \E k \in (j + 1)..(i - 1) :
                             events[k] = <<"sleep", events[j][2], events[i][3]>>
               /\ \E k \in (i + 1)..Len(events) :
                      /\ events[k] = <<"transition_done", "Idle", events[i][3]>>
                      /\ \A l \in (i + 1)..(k - 1) : events[l][3] = events[i][3]

\* the transition to Idle has begun inside the entry hook of Saving, before
\* the _transition_to that entered Saving returned
C21_Witness ==
    /\ state = "Idle"
    /\ \E i \in 1..Len(events) :
           /\ events[i] = <<"transition", "Idle", InboxTask>>
           /\ Depth(i) = 2
    /\ \E i \in 1..Len(events) : events[i] = <<"transition_done", "Saving", InboxTask>>

\* before the i-th event the device has acknowledged the last start_exposure
\* written: its response has been read and the entry hook has returned
Acknowledged(i) ==
    \E j \in 1..(i - 1) :
        /\ events[j][1] = "response" /\ events[j][2] = "start_exposure"
        /\ j < i - 1
        /\ events[j + 1][1] = "on_entry_done" /\ events[j + 1][2] = "Exposing"
        /\ \A k \in (j + 1)..(i - 1) :
               ~(events[k][1] = "write" /\ events[k][2] = "start_exposure")

\* C22: the exit hook of Exposing begins, and stop_exposure is written, only
\* after the entry hook of Exposing has returned, that is after the device's
\* response to start_exposure has been read; while a task awaits that
\* response no task is in the exit hook and the last command written is
\* start_exposure, whenever the stop or abort was sent.
C22_ExitAfterEntry ==
    /\ \A i \in 1..Len(events) :
           \/ /\ events[i][1] = "on_exit" /\ events[i][2] = "Exposing"
           \/ /\ events[i][1] = "write" /\ events[i][2] = "stop_exposure"
           => Acknowledged(i)
    /\ \A t \in Tasks :
           tpc[t] = "entry_io" =>
               /\ \A u \in Tasks : tpc[u] # "exit_io"
               /\ cwire[Len(cwire)] = "start_exposure"
               /\ link = "start_exposure"

\* a stop and an abort were sent while the entry hook of Exposing awaited the
\* device, and the exit hook has begun since
C22_Witness ==
    /\ \E i \in 1..Len(sent) :
           /\ sentPc[i] /\ sent[i] = STOP_CAMERA_EXPOSURE
    /\ \E i \in 1..Len(sent) :
           /\ sentPc[i] /\ sent[i] = ABORT_CAMERA_EXPOSURE
    /\ \E i \in 1..Len(events) : events[i] = <<"on_exit", "Exposing", InboxTask>>

\* the classes of state the controller can be in
States == {"Idle", "Exposing", "Saving", "Aborting"}

\* the transitions the state classes make: Idle.start_camera_exposure,
\* CameraExposing.stop_ / abort_camera_exposure, and the entry hooks of
\* SavingCameraImages and AbortingCameraExposure
Transitions ==
    {<<"Idle", "Exposing">>, <<"Exposing", "Saving">>, <<"Exposing", "Aborting">>,
     <<"Saving", "Idle">>, <<"Aborting", "Idle">>}

\* the states that have been current, in order, from the initial state on
StateHistory ==
    LET se == SelectSeq(events, LAMBDA e : e[1] = "state")
    IN  <<"Idle">> \o [i \in 1..Len(se) |-> se[i][2]]

\* C23: the current state is always one of Idle, Exposing, Saving, Aborting,
\* and every assignment of the current state is one of the transitions
\* Idle->Exposing, Exposing->Saving, Exposing->Aborting, Saving->Idle,
\* Aborting->Idle, whatever commands are given.
C23_AllowedTransitions ==
    LET h == StateHistory
    IN  /\ state \in States
        /\ state = h[Len(h)]
        /\ \A i \in 1..(Len(h) - 1) : <<h[i], h[i + 1]>> \in Transitions

\* each of the five transitions has been made
C23_Witness ==
    LET h == StateHistory
    IN  \A tr \in Transitions :
            \E i \in 1..(Len(h) - 1) : <<h[i], h[i + 1]>> = tr

\* C24: is_initialized and is_shutdown only ever change from false to true,
\* and in that order: the shutdown flag is never set while the initialized
\* flag is false, runs in which _initialize fails included.
C24_FlagsInOrder ==
    [][/\ is_initialized => is_initialized'
       /\ is_shutdown => is_shutdown'
       /\ is_shutdown' => is_initialized']_vars

\* the handler call the match statement of run() makes for an item
HandlingOf(item) ==
    IF variant = "core" /\ IsTuple2(item)
    THEN <<"sync", item[2], item[3]>>
    ELSE <<"plain", item, None>>

\* C25: until _initialize has returned, no handler has run, no device command
\* has been written and every message sent is still queued, in send order;
\* so after a failed _initialize no message is ever handled.  The messages
\* are handled afterwards in the order they were sent, each one once.
C25_NothingBeforeInitialize ==
    /\ ~is_initialized =>
           /\ handled = <<>>
           /\ wire = <<>>
           /\ received = <<>>
           /\ queue = sent
    /\ Len(received) <= Len(sent)
    /\ received = SubSeq(sent, 1, Len(received))
    /\ Len(handled) = Len(received)
    /\ \A k \in 1..Len(handled) : handled[k] = HandlingOf(sent[k])

\* two messages were pending when _initialize returned, and both have been
\* handled since
C25_Witness ==
    /\ is_initialized
    /\ initQueued = 2
    /\ Len(handled) = 2
    /\ wire = <<"start_exposure", "stop_exposure">>

\* run() has left its receive loop
LoopLeft == wpc \in {"shutting_down", "ended", "failed"}

\* C26: schedule_shutdown() only clears the flag: a handler that is running
\* goes on, the response it awaits is still read, and nothing is taken from
\* it or from the inbox; when the handler then returns, the loop is left
\* without another read and without another handler call, also when items
\* are pending, and none is read or handled later.
C26_CooperativeShutdown ==
    [][/\ (keep_running /\ ~keep_running') =>
              UNCHANGED <<wpc, awaiting, handled, wire, nread, responses, sentAfterEnd, queue, received,
                          exitKind, shutdownCalls>>
       /\ (~keep_running /\ wpc = "handling" /\ wpc' # "handling") =>
              /\ LoopLeft'
              /\ received' = received /\ queue' = queue /\ handled' = handled
              /\ wire' = wire
              /\ (exitKind' = "normal" /\ awaiting # "none") => nread' = nread + 1
       /\ LoopLeft =>
              /\ LoopLeft'
              /\ received' = received /\ handled' = handled /\ wire' = wire]_vars

\* schedule_shutdown() was called while a handler awaited the device; the
\* handler has had its response, the loop has been left normally and a
\* message is still pending
C26_Witness ==
    /\ scheduledAt = "handling"
    /\ exitKind = "normal"
    /\ WorkerOver
    /\ nread = 1
    /\ Len(handled) = 1
    /\ queue # <<>>

\* C27: once schedule_shutdown() has been called on a worker that is in its
\* receive loop, the worker eventually leaves the loop, whether or not a
\* further message is sent.
C27_EventuallyLeaves ==
    (is_initialized /\ ~keep_running) ~> LoopLeft

\* the readers in position p
ReadersAt(p) == {r \in DOMAIN rpc : rpc[r] = p}

\* the inbox and its readers agree: what was sent is returned or pending, in
\* order; the suspended readers are the getters, each once; a pending item
\* with a suspended reader has a woken reader about to take it
ReadersAgree ==
    /\ received \o queue = sent
    /\ \A r \in DOMAIN rpc :
           (rpc[r] = "waiting") = (\E i \in 1..Len(getters) : getters[i] = r)
    /\ \A i, j \in 1..Len(getters) : getters[i] = getters[j] => i = j
    /\ (queue # <<>> /\ ReadersAt("waiting") # {}) => ReadersAt("woken") # {}

\* a send that finds readers suspended wakes exactly one of them; a woken
\* read() that returns takes the oldest pending item; an item is returned to
\* one reader, and nothing changes for the others
OneReturnPerItem ==
    /\ (Len(sent') > Len(sent) /\ getters # <<>>) =>
           /\ ReadersAt("woken")' = ReadersAt("woken") \cup {Head(getters)}
           /\ Head(getters) \notin ReadersAt("woken")
           /\ received' = received
    /\ \A r \in DOMAIN rpc :
           (rpc[r] = "woken" /\ rpc'[r] = "idle") =>
               /\ queue # <<>>
               /\ received' = Append(received, Head(queue))
               /\ held'[r] = Head(queue)
    /\ received' # received =>
           /\ queue # <<>>
           /\ received' = Append(received, Head(queue))
           /\ queue' = Tail(queue)
           /\ \E r \in DOMAIN rpc :
                  /\ rpc'[r] = "idle" /\ held'[r] = Head(queue)
                  /\ \A q \in DOMAIN rpc \ {r} :
                         rpc'[q] = rpc[q] /\ held'[q] = held[q]

\* C28: with several readers suspended in read() on one inbox, every send
\* makes exactly one of them return with that message: no message is returned
\* to two readers, and no reader returns without a message.
C28_OneReaderPerMessage == []ReadersAgree /\ [][OneReturnPerItem]_vars

\* readers 2 and 3 were suspended when an item was sent: one read() has
\* returned the first item, reader 2 has been woken for the second one and
\* reader 3 is still suspended
C28_Witness ==
    /\ Len(sent) = 2
    /\ received = <<sent[1]>>
    /\ queue = <<sent[2]>>
    /\ rpc[1] = "idle" /\ held[1] = sent[1]
    /\ rpc[2] = "woken"
    /\ rpc[3] = "waiting"

\* C29: with plain and synchronous senders interleaved in any way, what
\* read() has returned is the beginning of what was enqueued, in the order it
\* was enqueued, and the rest is pending in that order: items with and
\* without a reply channel share the one order.
C29_MixedFifo ==
    /\ Len(received) <= Len(sent)
    /\ \A k \in 1..Len(received) : received[k] = sent[k]
    /\ \A k \in 1..Len(queue) : queue[k] = sent[Len(received) + k]
    /\ Len(received) + Len(queue) = Len(sent)
    /\ \A r \in Readers :
           rpc[r] = "idle" /\ received # <<>> => held[r] = received[Len(received)]

\* plain items and items of two synchronous senders were enqueued
\* alternately, sends and reads interleaved, and all have been read
C29_Witness ==
    /\ Len(received) = 4
    /\ sendAfterRead
    /\ ~IsTuple2(received[1])
    /\ SentSynchronous(received[2])
    /\ ~IsTuple2(received[3])
    /\ SentSynchronous(received[4])
    /\ received[2][3] # received[4][3]

\* for a cancelled send_synchronous call: nothing was returned to it; its
\* request is in the inbox history once, at its place; the first reply()
\* on its channel succeeded and its value is still in the channel
CancelledKept(t) ==
    LET c == chanOf[t] IN
    /\ result[t] = None
    /\ Cardinality({i \in 1..Len(sent) : sent[i] = SyncItem(t)}) = 1
    /\ replyLog[c] # <<>> =>
           /\ replyLog[c][1][2] = "ok"
           /\ slot[c] = <<replyLog[c][1][1]>>
    /\ replyLog[c] = <<>> => slot[c] = <<>>

\* the other send_synchronous calls are served as usual
OthersServed(t) ==
    \A u \in SyncSenders \ {t} :
        /\ spc[u] = "done" =>
               /\ Deposited(chanOf[u]) # <<>>
               /\ result[u] = Deposited(chanOf[u])[1][1]
        /\ (chanOf[u] # 0 /\ Deposited(chanOf[u]) # <<>>) =>
               spc[u] \in {"woken", "done", "cancelled"}

\* the step that cancels a caller touches nothing but that caller, and a
\* cancelled caller stays cancelled
CancelOnlyCaller ==
    \A t \in SyncSenders :
        /\ (spc[t] # "cancelled" /\ spc'[t] = "cancelled") =>
               /\ UNCHANGED <<queue, sent, received, held, rpc, getters, slot,
                              replyLog, result>>
               /\ \A u \in SyncSenders \ {t} : spc'[u] = spc[u]
        /\ spc[t] = "cancelled" => spc'[t] = "cancelled"

\* C30: when a send_synchronous caller is cancelled, its (message, channel)
\* item stays in the inbox and is read at its FIFO place; the reader's reply
\* on that channel succeeds and the value stays in the channel, unread; the
\* items and the senders behind it are served as if nothing had happened.
C30_CancelKeepsRequest ==
    /\ [](/\ received \o queue = sent
          /\ \A t \in SyncSenders :
                 spc[t] = "cancelled" => (CancelledKept(t) /\ OthersServed(t)))
    /\ [][CancelOnlyCaller]_vars

\* caller 1 was cancelled while its request was pending; the request, a plain
\* message and the request of caller 2 behind it have all been read, the
\* reply to caller 1 went through and lies unread, caller 2 has its reply
C30_Witness ==
    /\ spc[1] = "cancelled"
    /\ cancelledAt[1] = "queued"
    /\ Len(sent) = 3
    /\ sent[1] = SyncItem(1)
    /\ ~IsTuple2(sent[2])
    /\ sent[3] = SyncItem(2)
    /\ received = sent
    /\ replyLog[chanOf[1]] = <<<<Ack, "ok", request[1]>>>>
    /\ slot[chanOf[1]] = <<Ack>>
    /\ spc[2] = "done"
    /\ result[2] = Ack

\* the request line a message calls for, by the way it was sent: send of
\* START_EXPOSURE / STOP_EXPOSURE, send_synchronous of GET_EXPOSING_TIME
RequestFor(item) ==
    IF SentSynchronous(item)
    THEN IF item[2] = GET_EXPOSING_TIME THEN "get_exposing_time" ELSE "none"
    ELSE IF item = START_EXPOSURE THEN "start_exposure"
    ELSE IF item = STOP_EXPOSURE THEN "stop_exposure"
    ELSE "none"

\* the request lines the items read so far call for, in order
Requested ==
    SelectSeq([k \in 1..Len(received) |-> RequestFor(received[k])],
              LAMBDA c : c # "none")

\* C31: as long as the worker is sent enum members only, plainly or
\* synchronously, the request lines written to the device are those its
\* messages call for, one per message, in the order the messages were sent:
\* what was read is the beginning of what was sent, and the lines written
\* are the lines of what was read.
C31_CommandsInSendOrder ==
    (\A k \in 1..Len(sent) : sent[k] # TupleMessage) =>
        /\ received = SubSeq(sent, 1, Len(received))
        /\ wire = Requested

\* a start and a synchronous get_exposing_time were sent; both request lines
\* have been written in that order and both responses read
C31_Witness ==
    /\ Len(sent) = 2
    /\ sent[1] = START_EXPOSURE
    /\ SentSynchronous(sent[2]) /\ sent[2][2] = GET_EXPOSING_TIME
    /\ wire = <<"start_exposure", "get_exposing_time">>
    /\ nread = 2

\* the request line the handler call h = <<mode, message, channel>> writes
RequestOf(h) ==
    IF h[1] = "sync" THEN SyncCommand(h[2]) ELSE PlainCommand(h[2])

\* the position on the device link of the request of the k-th handler call
RequestIndex(k) ==
    Cardinality({j \in 1..k : RequestOf(handled[j]) # "none"})

\* C32: for every synchronous GetExposingTime the worker handles, nothing is
\* replied on its channel before the device answers that request; once the
\* device has answered with a number, exactly one reply was made on the
\* channel, it carries the number read for that very request, and a sender
\* whose send_synchronous has returned got that number.
C32_ReplyIsDeviceValue ==
    \A k \in 1..Len(handled) :
        LET h == handled[k]
            i == RequestIndex(k)
        IN  (h[1] = "sync" /\ h[2] = GET_EXPOSING_TIME /\ h[3][1] = "chan") =>
                /\ i > Len(responses) => replyLog[h[3][2]] = <<>>
                /\ (i <= Len(responses) /\ responses[i] # Malformed) =>
                       /\ replyLog[h[3][2]] =
                              << <<responses[i], "ok", GET_EXPOSING_TIME>> >>
                       /\ \A t \in SyncSenders :
                              (chanOf[t] = h[3][2] /\ spc[t] = "done") =>
                                  result[t] = responses[i]

C32_Witness ==
    /\ Len(handled) = 2
    /\ \A k \in 1..2 : handled[k][1] = "sync" /\ handled[k][2] = GET_EXPOSING_TIME
    /\ responses = <<Atom(2), Atom(1)>>
    /\ \A t \in SyncSenders : spc[t] = "done"
    /\ result[handled[1][3][2]] = Atom(2)
    /\ result[handled[2][3][2]] = Atom(1)

\* C33: every request line of the protocol the server has read, in whatever
\* state and order, has got its one response line: while only protocol lines
\* were read, as many response lines were written as request lines were read
\* (the response is written in the step that reads the request, so this holds
\* before each next read).
C33_OneResponsePerRequest ==
    (\A k \in 1..Len(requests) : requests[k] \in ProtocolLines) =>
        Len(written) = Len(requests)

\* the last of the first k requests that is start_exposure or stop_exposure
LastExposureRequest(k) ==
    LET ks == {j \in 1..k : requests[j] \in {"start_exposure", "stop_exposure"}}
    IN  IF ks = {} THEN "none"
        ELSE requests[CHOOSE j \in ks : \A i \in ks : i <= j]

\* C38: exactly one of the two flags is set, the start time is set iff exposing
\* is, and every get_state was answered exposing if the latest of the
\* start_exposure / stop_exposure requests before it was start_exposure, and
\* idle otherwise.
C38_FlagsExclusive ==
    /\ camera_server.exposing # camera_server.idle
    /\ (camera_server.exposure_start_time # NoTime) <=> camera_server.exposing
    /\ \A k \in 1..Len(written) :
           requests[k] = "get_state" =>
               written[k] = IF LastExposureRequest(k) = "start_exposure"
                            THEN "exposing" ELSE "idle"

C38_Witness ==
    /\ requests = <<"start_exposure", "stop_exposure", "get_state">>
    /\ written = <<"ok", "ok", "idle">>

\* the start_exposure and stop_exposure commands written to the device
ExposureCommands ==
    SelectSeq(cwire, LAMBDA c : c \in {"start_exposure", "stop_exposure"})

\* start_exposure commands written minus stop_exposure commands written
Balance ==
    Len(SelectSeq(cwire, LAMBDA c : c = "start_exposure"))
        - Len(SelectSeq(cwire, LAMBDA c : c = "stop_exposure"))

\* how often the hook `kind` of state `name` has been started
HookCount(kind, name) ==
    Cardinality({i \in 1..Len(events) : events[i][1] = kind /\ events[i][2] = name})

\* C34: the controller's start_exposure and stop_exposure commands alternate,
\* the first being start_exposure; the starts written exceed the stops written
\* by 0 or 1, and by 1 exactly from the entry hook of Exposing until its exit
\* hook, i.e. while Exposing is current and its exit hook has not begun.
C34_StartStopAlternate ==
    /\ \A k \in 1..Len(ExposureCommands) :
           ExposureCommands[k] =
               IF k % 2 = 1 THEN "start_exposure" ELSE "stop_exposure"
    /\ Balance \in {0, 1}
    /\ Balance = HookCount("on_entry", "Exposing") - HookCount("on_exit", "Exposing")
    /\ (Balance = 1) <=>
           (state = "Exposing" /\ \A t \in Tasks : tpc[t] # "exit_io")

C34_Witness ==
    /\ ExposureCommands = <<"start_exposure", "stop_exposure", "start_exposure">>
    /\ state = "Exposing"
    /\ tpc[InboxTask] = "reading"

\* the CameraServer once it has processed the request lines, in order
RECURSIVE DeviceAfter(_)
DeviceAfter(lines) ==
    IF lines = <<>> THEN CameraServerNew
    ELSE ServerAfter(DeviceAfter(SubSeq(lines, 1, Len(lines) - 1)),
                     lines[Len(lines)], 0)

\* C35: every get_exposing_time the controller writes reaches a device that
\* is exposing (the requests written before it leave the server with its
\* exposing flag set); and while Idle is current and no task awaits the
\* device, every request written has been answered and the server's
\* get_state is idle.
C35_TimeOnlyWhileExposing ==
    /\ \A k \in 1..Len(cwire) :
           cwire[k] = "get_exposing_time" =>
               ServerGetState(DeviceAfter(SubSeq(cwire, 1, k - 1))) = "exposing"
    /\ (state = "Idle" /\ \A t \in Tasks : tpc[t] \notin IoStates) =>
           /\ Len(reported) = Len(cwire)
           /\ ServerGetState(DeviceAfter(cwire)) = "idle"

C35_Witness ==
    /\ cwire = <<"start_exposure", "get_exposing_time", "stop_exposure">>
    /\ Len(reported) = 3
    /\ state = "Idle"
    /\ tpc[InboxTask] = "reading"

\* the request line a handler call h = <<mode, message, channel>> is due:
\* _receive_message knows START_EXPOSURE and STOP_EXPOSURE,
\* _receive_synchronous_message knows GET_EXPOSING_TIME
DueLine(h) ==
    IF h[1] = "plain" /\ h[2] = START_EXPOSURE THEN "start_exposure"
    ELSE IF h[1] = "plain" /\ h[2] = STOP_EXPOSURE THEN "stop_exposure"
    ELSE IF h[1] = "sync" /\ h[2] = GET_EXPOSING_TIME THEN "get_exposing_time"
    ELSE "none"

\* a message sent in the mode its handler has no case for
WrongMode(item) ==
    IF SentSynchronous(item)
    THEN item[2] \in {START_EXPOSURE, STOP_EXPOSURE}
    ELSE item = GET_EXPOSING_TIME

C37_NothingAfterRunEnded ==
    /\ Len(sentAfterEnd) = Len(sent)
    /\ \A k \in 1..Len(sent) :
           sentAfterEnd[k] =>
               /\ sendRaised = 0
               /\ Len(received) < k
               /\ Len(handled) < k
               /\ Len(queue) = Len(sent) - Len(received)
               /\ queue[k - Len(received)] = sent[k]
               /\ SentSynchronous(sent[k]) =>
                      /\ spc[sent[k][3][2]] = "waiting"
                      /\ replyLog[sent[k][3][2]] = <<>>
                      /\ slot[sent[k][3][2]] = <<>>

C37_Witness ==
    /\ wpc = "ended"
    /\ sentAfterEnd = <<FALSE, TRUE>>
    /\ SentSynchronous(sent[2])
    /\ sent[2][2] = GET_EXPOSING_TIME
    /\ Len(handled) = 1
    /\ queue = <<sent[2]>>

(***************************************************************************)
(* The synchronous Controller (controller.py): every call runs to its end  *)
(* without suspending, so a call is a function of the controller it finds. *)
(* A controller is its current state and the indices into its signals list *)
(* it has emitted.                                                         *)
(***************************************************************************)
\* signals[i].emit()
SyncEmit(c, i) == [c EXCEPT !.emitted = Append(@, i)]

RECURSIVE SyncOnEntry(_)
RECURSIVE SyncTransitionTo(_, _)

\* the on_entry of the current state of c; those of SavingCameraImages and
\* AbortingCameraExposure call _transition_to(Idle()) themselves
SyncOnEntry(c) ==
    IF c.state = "Idle" THEN SyncEmit(c, 0)
    ELSE IF c.state = "Exposing" THEN SyncEmit(c, 1)
    ELSE IF c.state = "Saving" THEN SyncTransitionTo(SyncEmit(c, 2), "Idle")
    ELSE SyncTransitionTo(SyncEmit(c, 3), "Idle")

\* Controller._transition_to: on_exit (no state's on_exit emits), the
\* assignment of the state, on_entry
SyncTransitionTo(c, new) == SyncOnEntry([c EXCEPT !.state = new])

\* Controller.__init__ with initial_state = Idle()
SyncController == SyncOnEntry([state |-> "Idle", emitted |-> <<>>])

\* Controller.start_camera_exposure / stop_camera_exposure /
\* abort_camera_exposure, delegated to the current state
SyncHandle(c, cmd) ==
    IF c.state = "Idle" /\ cmd = "start" THEN SyncTransitionTo(c, "Exposing")
    ELSE IF c.state = "Exposing" /\ cmd = "stop" THEN SyncTransitionTo(c, "Saving")
    ELSE IF c.state = "Exposing" /\ cmd = "abort" THEN SyncTransitionTo(c, "Aborting")
    ELSE c

\* the controller after the commands, applied one after the other
RECURSIVE SyncRun(_)
SyncRun(cmds) ==
    IF cmds = <<>> THEN SyncController
    ELSE SyncHandle(SyncRun(SubSeq(cmds, 1, Len(cmds) - 1)), cmds[Len(cmds)])

\* the state whose on_entry emits signals[i]
SignalName(i) == <<"idle", "exposing", "saving", "aborting">>[i + 1]

\* the notifications of the synchronous controller after the commands
SyncNotifications(cmds) ==
    [k \in 1..Len(SyncRun(cmds).emitted) |-> SignalName(SyncRun(cmds).emitted[k])]

\* the state notifications the AsyncController has emitted
StateNotifications ==
    LET sel == SelectSeq(signals,
                   LAMBDA e : e[1] \in {"idle", "exposing", "saving", "aborting"})
    IN  [k \in 1..Len(sel) |-> sel[k][1]]

\* the start / stop / abort commands read_inbox has called the controller with
CommandsBegun ==
    LET sel == SelectSeq(events,
                   LAMBDA e : /\ e[1] = "call"
                              /\ e[3] = InboxTask
                              /\ e[2] \in {"start", "stop", "abort"})
    IN  [k \in 1..Len(sel) |-> sel[k][2]]

\* read_inbox is between two controller calls
AtRest == tpc[InboxTask] \in {"reading", "dispatch"}

\* C39: whenever the AsyncController has fully handled the commands fed to
\* it one at a time, it has emitted the state notifications the synchronous
\* Controller emits for the same commands and rests in the same state; while
\* a command is being handled (device call, delay) it has emitted a prefix
\* of them.
C39_SameNotifications ==
    tpc[InboxTask] # "init" =>
        /\ Len(StateNotifications) <= Len(SyncNotifications(CommandsBegun))
        /\ StateNotifications =
               SubSeq(SyncNotifications(CommandsBegun), 1, Len(StateNotifications))
        /\ AtRest =>
               /\ StateNotifications = SyncNotifications(CommandsBegun)
               /\ state = SyncRun(CommandsBegun).state

C39_Witness ==
    /\ CommandsBegun = <<"start", "stop", "start", "abort">>
    /\ AtRest
    /\ StateNotifications = <<"idle", "exposing", "saving", "idle", "exposing",
                              "aborting", "idle">>
    /\ state = "Idle"

====
